---- MODULE Spec2Model ----
(***************************************************************************)
(* Model of the local RAG engine of inkess-app (src-tauri/src/rag):        *)
(* the SQLite-backed RagStore, the Indexer's index_all pass, the host     *)
(* commands of rag/mod.rs, the chunker, the extractor and the embedding    *)
(* engine.                                                                 *)
(*                                                                         *)
(* The specifications that share the module:                               *)
(*   Spec        one Indexer running index_all passes over a project       *)
(*               directory that other programs keep changing;              *)
(*   SpecStore   arbitrary sequences of RagStore calls on one connection;  *)
(*   SpecHost    the host commands interleaved on the async runtime;       *)
(*   SpecQuery   Indexer::search on stores filled by index_single_file;    *)
(*   SpecCleanup auto_cleanup on a project of more than 100 files;         *)
(*   SpecInit    one rag_init from its call to its return;                 *)
(*   SpecChunk   chunk_text and subdivide_lines on texts of a few lines;   *)
(*   SpecWalk    collect_files on small project trees;                     *)
(*   SpecEngine  EmbeddingEngine::new and its downloads, step by step;     *)
(*   SpecEmbed   embed_batch on small batches;                             *)
(*   SpecExtract extract_text on files of a few runs of bytes;             *)
(*   SpecRace    index_single_file in steps, with a concurrent writer;     *)
(*   SpecSetup   concurrent setup_python_env calls (python_setup.rs);      *)
(*   SpecSingle  index_single_file on files of many chunks, call by call.  *)
(*                                                                         *)
(* Every SQL statement is its own transaction (the code opens none), so a  *)
(* call that fails or a process that dies leaves the statements that ran   *)
(* before in the database.  A store call takes a statement budget n:       *)
(* n = NoFault lets every statement run, n = k makes statement k+1 fail.   *)
(***************************************************************************)
EXTENDS Integers, Sequences, FiniteSets, TLC

VARIABLES disk, edits, db, pass, last, call, pc, lock, slot, cache

vars == <<disk, edits, db, pass, last, call, pc, lock, slot, cache>>

indexVars == <<disk, edits, pass, last>>
storeVars == <<call>>
hostVars == <<pc, lock, slot, cache>>

----------------------------------------------------------------------------
(* Bounds of the model *)

Max(S) == CHOOSE x \in S : \A y \in S : y <= x

MaxFileSeq == 3

(* How many times other programs change the directory. *)
MaxEdits == 1

(* The project directory: one file at the root and one in a subdirectory. *)
Paths == {"a.md", "sub/b.md"}

(* A file's content is the sequence of its paragraphs; BinContent stands   *)
(* for bytes the binary heuristic rejects.                                 *)
BinContent == <<"NUL">>

TextContents == {<<"x">>, <<"y", "z">>}

Contents == TextContents \cup {BinContent}

(* Modification times, in whole seconds. *)
Mtimes == {1, 2}

NoFile == [exists |-> FALSE, mtime |-> 0, content |-> << >>]

(* Statement budget: NoFault, or the number of statements that succeed. *)
NoFault == -1

(* delete_file's three statements, the file insert, two per chunk. *)
MaxStmts == 4 + 2 * Max({Len(c) : c \in TextContents})

Budgets == {NoFault} \cup (0..(MaxStmts - 1))

Spend(n, k) == IF n = NoFault THEN NoFault ELSE n - k

----------------------------------------------------------------------------
(* Helpers *)

Min(S) == CHOOSE x \in S : \A y \in S : x <= y

RECURSIVE SortedSeq(_)
SortedSeq(S) == IF S = {} THEN << >>
                ELSE LET m == Min(S) IN <<m>> \o SortedSeq(S \ {m})

Perms(S) == {s \in [1..Cardinality(S) -> S] :
               \A i, j \in 1..Cardinality(S) : i # j => s[i] # s[j]}

----------------------------------------------------------------------------
(* extractor.rs, chunker.rs, embedding.rs as the indexer sees them *)

(* extract_text: Err for a missing file or binary bytes, else the text. *)
extract_text(file) ==
  IF ~file.exists THEN [ok |-> FALSE, text |-> << >>]
  ELSE IF file.content = BinContent THEN [ok |-> FALSE, text |-> << >>]
  ELSE [ok |-> TRUE, text |-> file.content]

(* Sha256 of the extracted text: injective on the contents of the model. *)
Hash(text) == <<"sha256", text>>

(* chunk_plain: one chunk per paragraph, with its 1-indexed line range     *)
(* (paragraph i sits on line 2i-1, blank lines between).                   *)
chunk_text(text) ==
  [i \in 1..Len(text) |->
     [content |-> text[i], start_line |-> 2 * i - 1, end_line |-> 2 * i - 1]]

(* The embedding of a passage: a function of its text alone. *)
Embed(text) == <<"vec", text>>

----------------------------------------------------------------------------
(* store.rs *)

EmptyDb == [files |-> {}, chunks |-> {}, vecs |-> {}, fseq |-> 0, cseq |-> 0]

(* AUTOINCREMENT without it: SQLite picks the largest rowid in use plus one. *)
NextFileIdRowid(d) == Max({f.id : f \in d.files} \cup {0}) + 1

(* files.id INTEGER PRIMARY KEY AUTOINCREMENT: never an id used before. *)
NextFileId(d) == d.fseq + 1

NextChunkId(d) == d.cseq + 1

FileRows(d, path) == {f \in d.files : f.path = path}

ChunksOf(d, file_id) == {c \in d.chunks : c.file_id = file_id}

(* delete_file without its first statement: the vectors stay behind. *)
delete_file_keeps_vectors(d, path, n) ==
  LET rows == FileRows(d, path) IN
  IF rows = {} THEN [db |-> d, n |-> n, ok |-> TRUE, ret |-> 0]
  ELSE
    LET file_id == (CHOOSE f \in rows : TRUE).id
        d2 == [d EXCEPT !.chunks = {c \in @ : c.file_id # file_id}]
        d3 == [d2 EXCEPT !.files = {f \in @ : f.id # file_id}]
    IN IF n = 0 THEN [db |-> d, n |-> 0, ok |-> FALSE, ret |-> 0]
       ELSE IF n = 1 THEN [db |-> d2, n |-> 0, ok |-> FALSE, ret |-> 0]
       ELSE [db |-> d3, n |-> Spend(n, 2), ok |-> TRUE,
             ret |-> Cardinality(d2.files) - Cardinality(d3.files)]

(* delete_file whose first statement has no WHERE clause: every vector is   *)
(* deleted, those of other files too.                                      *)
delete_file_unscoped(d, path, n) ==
  LET rows == FileRows(d, path) IN
  IF rows = {} THEN [db |-> d, n |-> n, ok |-> TRUE, ret |-> 0]
  ELSE
    LET file_id == (CHOOSE f \in rows : TRUE).id
        d1 == [d EXCEPT !.vecs = {}]
        d2 == [d1 EXCEPT !.chunks = {c \in @ : c.file_id # file_id}]
        d3 == [d2 EXCEPT !.files = {f \in @ : f.id # file_id}]
    IN IF n = 0 THEN [db |-> d, n |-> 0, ok |-> FALSE, ret |-> 0]
       ELSE IF n = 1 THEN [db |-> d1, n |-> 0, ok |-> FALSE, ret |-> 0]
       ELSE IF n = 2 THEN [db |-> d2, n |-> 0, ok |-> FALSE, ret |-> 0]
       ELSE [db |-> d3, n |-> Spend(n, 3), ok |-> TRUE,
             ret |-> Cardinality(d2.files) - Cardinality(d3.files)]

(* delete_file with the lookup's error passed on: a path without a row is  *)
(* an error (QueryReturnedNoRows).                                         *)
delete_file_missing_is_error(d, path, n) ==
  LET rows == FileRows(d, path) IN
  IF rows = {} THEN [db |-> d, n |-> n, ok |-> FALSE, ret |-> 0]
  ELSE
    LET file_id == (CHOOSE f \in rows : TRUE).id
        cids == {c.id : c \in {x \in d.chunks : x.file_id = file_id}}
        d1 == [d EXCEPT !.vecs = {v \in @ : v.chunk_id \notin cids}]
        d2 == [d1 EXCEPT !.chunks = {c \in @ : c.file_id # file_id}]
        d3 == [d2 EXCEPT !.files = {f \in @ : f.id # file_id}]
    IN IF n = 0 THEN [db |-> d, n |-> 0, ok |-> FALSE, ret |-> 0]
       ELSE IF n = 1 THEN [db |-> d1, n |-> 0, ok |-> FALSE, ret |-> 0]
       ELSE IF n = 2 THEN [db |-> d2, n |-> 0, ok |-> FALSE, ret |-> 0]
       ELSE [db |-> d3, n |-> Spend(n, 3), ok |-> TRUE,
             ret |-> Cardinality(d2.files) - Cardinality(d3.files)]

(* delete_file: the lookup of the path's id (any error of it reads as "no  *)
(* row": Ok(0)), then three DELETE statements, vectors, chunks, file row;  *)
(* the value returned is the row count of the last one.                    *)
delete_file(d, path, n) ==
  LET rows == FileRows(d, path) IN
  IF rows = {} THEN [db |-> d, n |-> n, ok |-> TRUE, ret |-> 0]
  ELSE
    LET file_id == (CHOOSE f \in rows : TRUE).id
        cids == {c.id : c \in ChunksOf(d, file_id)}
        d1 == [d EXCEPT !.vecs = {v \in @ : v.chunk_id \notin cids}]
        d2 == [d1 EXCEPT !.chunks = {c \in @ : c.file_id # file_id}]
        d3 == [d2 EXCEPT !.files = {f \in @ : f.id # file_id}]
    IN IF n = 0 THEN [db |-> d, n |-> 0, ok |-> FALSE, ret |-> 0]
       ELSE IF n = 1 THEN [db |-> d1, n |-> 0, ok |-> FALSE, ret |-> 0]
       ELSE IF n = 2 THEN [db |-> d2, n |-> 0, ok |-> FALSE, ret |-> 0]
       ELSE [db |-> d3, n |-> Spend(n, 3), ok |-> TRUE,
             ret |-> Cardinality(d2.files) - Cardinality(d3.files)]

(* upsert_file: delete_file, then INSERT INTO files (path is UNIQUE). *)
upsert_file(d, path, mtime, hash, n) ==
  LET r == delete_file(d, path, n) IN
  IF ~r.ok THEN [db |-> r.db, n |-> r.n, ok |-> FALSE, ret |-> 0]
  ELSE IF r.n = 0 \/ FileRows(r.db, path) # {}
  THEN [db |-> r.db, n |-> r.n, ok |-> FALSE, ret |-> 0]
  ELSE LET id == NextFileId(r.db) IN
       [db |-> [r.db EXCEPT
                  !.files = @ \cup {[id |-> id, path |-> path,
                                     mtime |-> mtime, hash |-> hash]},
                  !.fseq = IF id > @ THEN id ELSE @],
        n |-> Spend(r.n, 1), ok |-> TRUE, ret |-> id]

(* insert_chunk: INSERT INTO chunks, then INSERT INTO vec_chunks under the *)
(* chunk's rowid.                                                          *)
insert_chunk(d, file_id, chunk, embedding, n) ==
  IF n = 0 THEN [db |-> d, n |-> 0, ok |-> FALSE]
  ELSE
    LET chunk_id == NextChunkId(d)
        d1 == [d EXCEPT
                 !.chunks = @ \cup {[id |-> chunk_id, file_id |-> file_id,
                                     content |-> chunk.content,
                                     start_line |-> chunk.start_line,
                                     end_line |-> chunk.end_line]},
                 !.cseq = chunk_id]
        d2 == [d1 EXCEPT
                 !.vecs = @ \cup {[chunk_id |-> chunk_id,
                                   embedding |-> embedding]}]
    IN IF n = 1 \/ \E v \in d1.vecs : v.chunk_id = chunk_id
       THEN [db |-> d1, n |-> 0, ok |-> FALSE]
       ELSE [db |-> d2, n |-> Spend(n, 2), ok |-> TRUE]

(* get_file_mtime: Some(mtime) of the path's row, or None. *)
None == [some |-> FALSE, val |-> 0]

Some(v) == [some |-> TRUE, val |-> v]

get_file_mtime(d, path) ==
  IF FileRows(d, path) = {} THEN None
  ELSE Some((CHOOSE f \in FileRows(d, path) : TRUE).mtime)

(* The rows search joins: vec_chunks JOIN chunks JOIN files. *)
SearchJoin(d) ==
  {[chunk_id |-> v.chunk_id, file_id |-> c.file_id, path |-> f.path,
    content |-> c.content] :
     <<v, c, f>> \in {t \in d.vecs \X d.chunks \X d.files :
                        t[2].id = t[1].chunk_id /\ t[3].id = t[2].file_id}}

(* The embedding space of the model: each passage is a point on a line,    *)
(* and vec0's distance (L2) is the distance between the points.            *)
Coord(embedding) ==
  CASE embedding[2] = "x" -> 0
    [] embedding[2] = "y" -> 1
    [] embedding[2] = "z" -> 2

Distance(a, b) == IF Coord(a) >= Coord(b) THEN Coord(a) - Coord(b)
                  ELSE Coord(b) - Coord(a)

(* WHERE v.embedding MATCH ?1 ... LIMIT ?2: the top_k vectors nearest to   *)
(* the query, ties broken either way.                                      *)
KNearest(d, query_vec, top_k) ==
  {S \in SUBSET d.vecs :
     /\ Cardinality(S) = Min({top_k, Cardinality(d.vecs)})
     /\ \A v \in S, w \in d.vecs \ S :
          Distance(query_vec, v.embedding) <= Distance(query_vec, w.embedding)}

(* ORDER BY v.distance *)
OrderByDistance(S, query_vec) ==
  {s \in Perms(S) :
     \A i, j \in 1..Len(s) :
       i < j => Distance(query_vec, s[i].embedding)
                  <= Distance(query_vec, s[j].embedding)}

(* JOIN chunks c ON c.id = v.chunk_id JOIN files f ON f.id = c.file_id:    *)
(* the SearchResult of a vector row, if it has a chunk row with a file row.*)
JoinRow(d, v, query_vec) ==
  {[path |-> t[2].path, content |-> t[1].content,
    start_line |-> t[1].start_line, end_line |-> t[1].end_line,
    distance |-> Distance(query_vec, v.embedding)] :
     t \in {u \in d.chunks \X d.files :
              u[1].id = v.chunk_id /\ u[2].id = u[1].file_id}}

RECURSIVE JoinSeq(_, _, _)
JoinSeq(d, s, query_vec) ==
  IF s = << >> THEN << >>
  ELSE LET rows == JoinRow(d, Head(s), query_vec) IN
       (IF rows = {} THEN << >> ELSE <<CHOOSE r \in rows : TRUE>>)
         \o JoinSeq(d, Tail(s), query_vec)

(* search without its LIMIT: every vector is a candidate. *)
search_unlimited(d, query_vec, top_k) ==
  {JoinSeq(d, s, query_vec) : s \in OrderByDistance(d.vecs, query_vec)}

(* search: the result lists the query can return. *)
search(d, query_vec, top_k) ==
  {JoinSeq(d, s, query_vec) :
     s \in UNION {OrderByDistance(S, query_vec) :
                    S \in KNearest(d, query_vec, top_k)}}

(* stats: the two row counts. *)
stats(d) == [file_count |-> Cardinality(d.files),
             chunk_count |-> Cardinality(d.chunks)]

----------------------------------------------------------------------------
(* indexer.rs *)

(* A batch size of two batches in one. *)
batch_size_doubled == 32 + 32

(* let batch_size = 32 *)
batch_size == 32

(* What can go wrong inside index_single_file: embed_batch fails on batch  *)
(* number embedAt (0: never), or the store's statement budget runs out.    *)
Faults == {[embedAt |-> 0, n |-> b] : b \in Budgets}
            \cup {[embedAt |-> 1, n |-> NoFault]}

NoFaults == [embedAt |-> 0, n |-> NoFault]

(* The inner loop: insert_chunk for chunks j..hi of one embedded batch. *)
RECURSIVE InsertBatch(_, _, _, _, _, _, _)
InsertBatch(d, file_id, chunks, j, hi, chunk_idx, n) ==
  IF j > hi THEN [db |-> d, n |-> n, ok |-> TRUE, chunk_idx |-> chunk_idx]
  ELSE LET r == insert_chunk(d, file_id, chunks[j],
                             Embed(chunks[j].content), n) IN
       IF ~r.ok THEN [db |-> r.db, n |-> r.n, ok |-> FALSE,
                      chunk_idx |-> chunk_idx]
       ELSE InsertBatch(r.db, file_id, chunks, j + 1, hi, chunk_idx + 1, r.n)

(* The outer loop: batches of batch_size chunks, embed_batch on each. *)
RECURSIVE IndexBatches(_, _, _, _, _, _, _, _)
IndexBatches(d, file_id, chunks, batch_start, batch_no, chunk_idx, n, fault) ==
  IF batch_start > Len(chunks)
  THEN [db |-> d, ok |-> TRUE, chunk_idx |-> chunk_idx, embedded |-> batch_no > 1]
  ELSE
    LET batch_end == IF batch_start + batch_size - 1 < Len(chunks)
                     THEN batch_start + batch_size - 1 ELSE Len(chunks)
    IN IF fault.embedAt = batch_no
       THEN [db |-> d, ok |-> FALSE, chunk_idx |-> chunk_idx, embedded |-> TRUE]
       ELSE LET r == InsertBatch(d, file_id, chunks, batch_start, batch_end,
                                 chunk_idx, n) IN
            IF ~r.ok THEN [db |-> r.db, ok |-> FALSE,
                           chunk_idx |-> r.chunk_idx, embedded |-> TRUE]
            ELSE IndexBatches(r.db, file_id, chunks, batch_end + 1,
                              batch_no + 1, r.chunk_idx, r.n, fault)

(* index_single_file: extract, hash, upsert the file record, chunk, embed  *)
(* and insert.  work names the kinds of work the call performed.  The call *)
(* is one step here, so its own get_mtime sees the file extract_text just  *)
(* read and cannot fail.                                                   *)
index_single_file(d, file, rel_path, fault) ==
  LET ex == extract_text(file) IN
  IF ~ex.ok
  THEN [db |-> d, ok |-> FALSE, ret |-> 0, work |-> {"extract"},
        upserted |-> FALSE]
  ELSE
    LET hash == Hash(ex.text)
        up == upsert_file(d, rel_path, file.mtime, hash, fault.n)
    IN IF ~up.ok
       THEN [db |-> up.db, ok |-> FALSE, ret |-> 0,
             work |-> {"extract", "hash", "write"}, upserted |-> FALSE]
       ELSE
         LET chunks == chunk_text(ex.text) IN
         IF chunks = << >>
         THEN [db |-> up.db, ok |-> TRUE, ret |-> 0,
               work |-> {"extract", "hash", "write"}, upserted |-> TRUE]
         ELSE LET r == IndexBatches(up.db, up.ret, chunks, 1, 1, 0, up.n,
                                    fault) IN
              [db |-> r.db, ok |-> r.ok, ret |-> r.chunk_idx,
               work |-> {"extract", "hash", "write", "embed"},
               upserted |-> TRUE]

(* A stored mtime of Some(m) with m > mtime: a wrong comparison. *)
is_current_newer(stored, mtime) == stored.some /\ stored.val > mtime

(* if let Ok(Some(stored_mtime)) = ... { if stored_mtime == mtime *)
is_current(stored, mtime) == stored.some /\ stored.val = mtime

(* The chunk rows stored for a path, in rowid order. *)
ChunkIdsOfPath(d, path) ==
  {c.id : c \in {x \in d.chunks :
                   \E f \in FileRows(d, path) : x.file_id = f.id}}

FileIdsOfPath(d, path) == {f.id : f \in FileRows(d, path)}

ChunkRow(d, id) == CHOOSE c \in d.chunks : c.id = id

ChunkTexts(d, path) ==
  LET ids == SortedSeq(ChunkIdsOfPath(d, path)) IN
  [i \in 1..Len(ids) |-> ChunkRow(d, ids[i]).content]

(* Every chunk of the path has exactly one vector, that of its own text. *)
VectorsMatch(d, path) ==
  \A id \in ChunkIdsOfPath(d, path) :
    {v \in d.vecs : v.chunk_id = id}
      = {[chunk_id |-> id, embedding |-> Embed(ChunkRow(d, id).content)]}

Texts(chunks) == [i \in 1..Len(chunks) |-> chunks[i].content]

(* The text whose hash a file row records. *)
HashedText(f) == f.hash[2]

(* The path's row holds the whole chunk set of the text it was hashed from. *)
Complete(d, path) ==
  \A f \in FileRows(d, path) :
    /\ ChunkTexts(d, path) = Texts(chunk_text(HashedText(f)))
    /\ VectorsMatch(d, path)

IdlePass == [st |-> "idle", todo |-> << >>, total |-> 0, walk |-> "none",
             files_indexed |-> 0, files_skipped |-> 0, chunks_created |-> 0,
             allCurrent |-> TRUE, startStats |-> stats(EmptyDb),
             retiredF |-> {}, retiredC |-> {}]

NoLast == [path |-> "", outcome |-> "none", hadSame |-> FALSE,
           changed |-> FALSE, wasIndexed |-> FALSE, faultFree |-> TRUE, content |-> << >>,
           prevTexts |-> << >>, work |-> {}, upserted |-> FALSE]

(* collect_files: the eligible files under dir, in read_dir's order. *)
collect_files(dsk) == Perms({p \in Paths : dsk[p].exists})

(* index_all up to its loop: the walk.  A read_dir error, of the root or   *)
(* of a subdirectory, makes the whole call return Err.                     *)
StartPass(walk) ==
  /\ pass.st # "running"
  /\ \/ /\ walk \in {"root", "sub"}
        /\ pass' = [IdlePass EXCEPT !.st = "err", !.walk = walk,
                                    !.startStats = stats(db)]
     \/ /\ walk = "ok"
        /\ \E entries \in collect_files(disk) :
             pass' = [IdlePass EXCEPT
                        !.st = IF entries = << >> THEN "ok" ELSE "running",
                        !.walk = "ok", !.todo = entries,
                        !.total = Len(entries), !.startStats = stats(db)]
  /\ last' = NoLast
  /\ UNCHANGED <<disk, edits, db, call, hostVars>>

(* The end of one loop iteration: the loop's exit returns Ok(report). *)
Advance(p) == IF Tail(p.todo) = << >> THEN [p EXCEPT !.todo = << >>, !.st = "ok"]
              ELSE [p EXCEPT !.todo = Tail(@)]

(* What the step knows of the file before it runs, for the claims. *)
Observe(path, fault) ==
  LET rows == FileRows(db, path) IN
  [NoLast EXCEPT
     !.path = path,
     !.hadSame = disk[path].exists
                   /\ \E f \in rows : f.mtime = disk[path].mtime,
     !.changed = disk[path].exists
                   /\ \E f \in rows : f.mtime # disk[path].mtime
                                        \/ f.hash # Hash(disk[path].content),
     !.wasIndexed = rows # {} /\ Complete(db, path),
     !.faultFree = (fault = NoFaults) /\ disk[path].exists
                     /\ disk[path].content # BinContent,
     !.content = disk[path].content,
     !.prevTexts = ChunkTexts(db, path)]

(* One iteration of index_all's loop over the collected entries. *)
IndexFile(fault) ==
  /\ pass.st = "running"
  /\ LET rel_path == Head(pass.todo)
         file == disk[rel_path]
         stored == get_file_mtime(db, rel_path)
         obs == Observe(rel_path, fault)
     IN
     IF ~file.exists
     THEN (* get_mtime(full_path)? returns from index_all *)
          /\ fault = NoFaults
          /\ pass' = [pass EXCEPT !.st = "err", !.todo = << >>,
                                  !.allCurrent = FALSE]
          /\ last' = [obs EXCEPT !.outcome = "abort"]
          /\ db' = db
     ELSE IF is_current(stored, file.mtime)
     THEN /\ fault = NoFaults
          /\ pass' = Advance([pass EXCEPT !.files_skipped = @ + 1,
                                          !.allCurrent = @ /\ obs.hadSame])
          /\ last' = [obs EXCEPT !.outcome = "current"]
          /\ db' = db
     ELSE /\ db.fseq < MaxFileSeq
          /\ LET r == index_single_file(db, file, rel_path, fault) IN
             /\ db' = r.db
             /\ last' = [obs EXCEPT
                           !.outcome = IF r.ok THEN "indexed" ELSE "failed",
                           !.work = r.work, !.upserted = r.upserted]
             /\ pass' = Advance(
                  [pass EXCEPT
                     !.files_indexed = IF r.ok THEN @ + 1 ELSE @,
                     !.chunks_created = IF r.ok THEN @ + r.ret ELSE @,
                     !.files_skipped = IF r.ok THEN @ ELSE @ + 1,
                     !.allCurrent = @ /\ obs.hadSame,
                     !.retiredF = IF r.upserted
                                  THEN @ \cup FileIdsOfPath(db, rel_path)
                                  ELSE @,
                     !.retiredC = IF r.upserted
                                  THEN @ \cup ChunkIdsOfPath(db, rel_path)
                                  ELSE @])
  /\ UNCHANGED <<disk, edits, call, hostVars>>

(* The process dies inside index_single_file after n statements: the       *)
(* database keeps what they wrote, the pass is gone.                       *)
Crash(n) ==
  /\ pass.st = "running"
  /\ LET rel_path == Head(pass.todo)
         file == disk[rel_path]
         stored == get_file_mtime(db, rel_path)
         fault == [embedAt |-> 0, n |-> n]
     IN /\ extract_text(file).ok
        /\ ~is_current(stored, file.mtime)
        /\ db.fseq < MaxFileSeq
        /\ db' = index_single_file(db, file, rel_path, fault).db
        /\ last' = [Observe(rel_path, fault) EXCEPT !.outcome = "crash"]
        /\ pass' = [pass EXCEPT !.st = "crashed", !.todo = << >>]
  /\ UNCHANGED <<disk, edits, call, hostVars>>

(* Other programs write, touch and remove the project's files. *)
WriteFile(p, content, mtime) ==
  /\ edits < MaxEdits
  /\ disk[p] # [exists |-> TRUE, mtime |-> mtime, content |-> content]
  /\ edits' = edits + 1
  /\ disk' = [disk EXCEPT ![p] = [exists |-> TRUE, mtime |-> mtime,
                                  content |-> content]]
  /\ UNCHANGED <<db, pass, last, call, hostVars>>

RemoveFile(p) ==
  /\ edits < MaxEdits
  /\ disk[p].exists
  /\ edits' = edits + 1
  /\ disk' = [disk EXCEPT ![p] = NoFile]
  /\ UNCHANGED <<db, pass, last, call, hostVars>>

----------------------------------------------------------------------------
(* rag/mod.rs: the host commands, each invocation a task of the async      *)
(* runtime, and the search_knowledge tool of ai.rs                         *)

Procs == {"t1", "t2"}

Dirs == {"projA", "projB"}

(* A task: the command it runs, where it is in it, and the dir argument. *)
Idle == [at |-> "idle", dir |-> "none", cmd |-> "none"]

HostInit ==
  /\ pc = [t \in Procs |-> Idle]
  /\ lock = "free"
  /\ slot = "none"
  /\ cache = [model |-> FALSE, tokenizer |-> FALSE]

At(t, where) == pc[t].at = where

Goto(t, where) == pc' = [pc EXCEPT ![t].at = where]

(* rag_init up to the engine: RagStore::open and auto_cleanup on dir.      *)
(* call.issued remembers the dir of the command issued last.               *)
InitOpen(t, dir) ==
  /\ At(t, "idle")
  /\ pc' = [pc EXCEPT ![t] = [at |-> "new", dir |-> dir, cmd |-> "rag_init"]]
  /\ call' = [call EXCEPT !.issued = dir]
  /\ UNCHANGED <<lock, slot, cache, db, indexVars>>

(* rag_rebuild up to its call of rag_init: empty the slot under the lock,  *)
(* remove the database file; when the removal fails the command returns    *)
(* the error.                                                              *)
RebuildBegin(t, dir, removed) ==
  /\ At(t, "idle")
  /\ lock = "free"
  /\ slot' = "none"
  /\ pc' = IF removed
           THEN [pc EXCEPT ![t] = [at |-> "new", dir |-> dir,
                                   cmd |-> "rag_rebuild"]]
           ELSE pc
  /\ call' = [call EXCEPT !.issued = dir]
  /\ UNCHANGED <<lock, cache, db, indexVars>>

(* EmbeddingEngine::new: if !model_path.exists() download it, else go on   *)
(* to the tokenizer.                                                       *)
EngineCheckModel(t) ==
  /\ At(t, "new")
  /\ Goto(t, IF cache.model THEN "chk_tok" ELSE "dl_model")
  /\ UNCHANGED <<lock, slot, cache, db, call, indexVars>>

(* download_file of the model from the primary URL, then the mirror: ok    *)
(* when one of them delivered; the file is written at the end.             *)
DownloadModel(t, ok) ==
  /\ At(t, "dl_model")
  /\ IF ok THEN /\ cache' = [cache EXCEPT !.model = TRUE]
                /\ Goto(t, "chk_tok")
     ELSE /\ cache' = cache
          /\ pc' = [pc EXCEPT ![t] = Idle]
  /\ UNCHANGED <<lock, slot, db, call, indexVars>>

EngineCheckTokenizer(t) ==
  /\ At(t, "chk_tok")
  /\ Goto(t, IF cache.tokenizer THEN "load" ELSE "dl_tok")
  /\ UNCHANGED <<lock, slot, cache, db, call, indexVars>>

DownloadTokenizer(t, ok) ==
  /\ At(t, "dl_tok")
  /\ IF ok THEN /\ cache' = [cache EXCEPT !.tokenizer = TRUE]
                /\ Goto(t, "load")
     ELSE /\ cache' = cache
          /\ pc' = [pc EXCEPT ![t] = Idle]
  /\ UNCHANGED <<lock, slot, db, call, indexVars>>

(* The ONNX session and the tokenizer load (or fail); rag_init goes on to  *)
(* indexer.index_all, with no lock taken.                                  *)
EngineLoad(t, ok) ==
  /\ At(t, "load")
  /\ IF ok THEN Goto(t, "indexing") ELSE pc' = [pc EXCEPT ![t] = Idle]
  /\ UNCHANGED <<lock, slot, cache, db, call, indexVars>>

(* index_all returns: Err ends rag_init, Ok goes on to the lock. *)
InitIndexDone(t, ok) ==
  /\ At(t, "indexing")
  /\ IF ok THEN Goto(t, "store") ELSE pc' = [pc EXCEPT ![t] = Idle]
  /\ UNCHANGED <<lock, slot, cache, db, call, indexVars>>

(* let mut guard = state.indexer.lock()?; *guard = Some(indexer); Ok(()) *)
InitStoreIndexer(t) ==
  /\ At(t, "store")
  /\ lock = "free"
  /\ slot' = pc[t].dir
  /\ pc' = [pc EXCEPT ![t] = Idle]
  /\ UNCHANGED <<lock, cache, db, call, indexVars>>

(* rag_search, rag_stats and the search_knowledge tool: take the lock; an  *)
(* empty slot returns at once, else the query runs with the lock held.     *)
QueryBegin(t, what) ==
  /\ At(t, "idle")
  /\ lock = "free"
  /\ IF slot = "none" THEN UNCHANGED <<pc, lock>>
     ELSE /\ lock' = t
          /\ pc' = [pc EXCEPT ![t] = [at |-> what, dir |-> slot,
                                      cmd |-> what]]
  /\ UNCHANGED <<slot, cache, db, call, indexVars>>

QueryEnd(t) ==
  /\ pc[t].at \in {"rag_search", "rag_stats", "search_knowledge"}
  /\ lock = t
  /\ lock' = "free"
  /\ pc' = [pc EXCEPT ![t] = Idle]
  /\ UNCHANGED <<slot, cache, db, call, indexVars>>

NextHost ==
  \/ \E t \in Procs, dir \in Dirs : InitOpen(t, dir)
  \/ \E t \in Procs, dir \in Dirs, removed \in BOOLEAN :
       RebuildBegin(t, dir, removed)
  \/ \E t \in Procs : EngineCheckModel(t)
  \/ \E t \in Procs, ok \in BOOLEAN : DownloadModel(t, ok)
  \/ \E t \in Procs : EngineCheckTokenizer(t)
  \/ \E t \in Procs, ok \in BOOLEAN : DownloadTokenizer(t, ok)
  \/ \E t \in Procs, ok \in BOOLEAN : EngineLoad(t, ok)
  \/ \E t \in Procs, ok \in BOOLEAN : InitIndexDone(t, ok)
  \/ \E t \in Procs : InitStoreIndexer(t)
  \/ \E t \in Procs, what \in {"rag_search", "rag_stats", "search_knowledge"} :
       QueryBegin(t, what)
  \/ \E t \in Procs : QueryEnd(t)

----------------------------------------------------------------------------
(* embedding.rs: EmbeddingEngine::new and download_file, one call at a     *)
(* time, step by step (specification SpecEngine).  cache holds, for each   *)
(* of the two files of the model directory, whether it exists, how many    *)
(* chunks of a response body it holds, the status of that response, and    *)
(* whether a write left it torn.                                           *)

(* Bounds: chunks in the body of a 200 response, calls of new. *)
MaxBodyChunks == 2
MaxNewCalls == 2

EngineFiles == {"model", "tokenizer"}

Statuses == {200, 404}

(* send() returned an error: there is no response. *)
NoResponse == 0

(* The chunks of a response body: the file, or an error page. *)
BodyLen(status) == IF status = 200 THEN MaxBodyChunks ELSE 1

Absent == [exists |-> FALSE, len |-> 0, status |-> 0, torn |-> FALSE]

Stored(status, n) == [exists |-> TRUE, len |-> n, status |-> status,
                      torn |-> FALSE]

Torn(status, n) == [exists |-> TRUE, len |-> n, status |-> status,
                    torn |-> TRUE]

IdleEngine == [at |-> "idle", file |-> "none", src |-> "none", status |-> 0,
               downloaded |-> 0, reqs |-> << >>, hit |-> {}, failed |-> {},
               outcome |-> "none", ncalls |-> 0, prev |-> "none"]

(* A path.exists() that never finds the file. *)
Cached_never(c, f) == FALSE

(* model_path.exists(), tokenizer_path.exists() *)
Cached(c, f) == c[f].exists

(* What follows a file that is in place: the tokenizer, then the loading. *)
AfterFile(eng) ==
  IF eng.file = "model"
  THEN [eng EXCEPT !.at = "check", !.file = "tokenizer", !.src = "none"]
  ELSE [eng EXCEPT !.at = "load", !.file = "none", !.src = "none"]

(* download_file returned Err: the primary's error is logged and the       *)
(* mirror is tried, the mirror's error is returned by new.                 *)
FailAttempt(eng, how) ==
  IF eng.src = "primary"
  THEN [eng EXCEPT !.at = "send", !.src = "mirror",
                   !.failed = @ \cup {<<eng.file, eng.src, how>>}]
  ELSE [eng EXCEPT !.at = "idle", !.outcome = "download_error",
                   !.failed = @ \cup {<<eng.file, eng.src, how>>}]

(* A stream error that saves the bytes received so far. *)
stream_error_saves_partial(c, f, status, downloaded) ==
  [c EXCEPT ![f] = Stored(status, downloaded)]

(* The destination after `chunk.map_err(..)?`: download_file returns       *)
(* before its only write.                                                  *)
stream_error_cache(c, f, status, downloaded) == c

(* new: get_model_dir, create_dir_all. *)
NewBegin(ok) ==
  /\ call.eng.at = "idle"
  /\ call.eng.ncalls < MaxNewCalls
  /\ call' = [call EXCEPT !.eng =
       [IdleEngine EXCEPT !.at = IF ok THEN "check" ELSE "idle",
                          !.file = IF ok THEN "model" ELSE "none",
                          !.outcome = IF ok THEN "none" ELSE "dir_error",
                          !.ncalls = call.eng.ncalls + 1,
                          !.prev = call.eng.outcome]]
  /\ UNCHANGED <<db, indexVars, hostVars>>

(* if !path.exists() { download from the primary URL } else { go on } *)
NewCheck ==
  /\ call.eng.at = "check"
  /\ call' = [call EXCEPT !.eng =
       IF Cached(cache, call.eng.file)
       THEN AfterFile([call.eng EXCEPT !.hit = @ \cup {call.eng.file}])
       ELSE [call.eng EXCEPT !.at = "send", !.src = "primary"]]
  /\ UNCHANGED <<db, indexVars, hostVars>>

(* download_file up to the response: the request is sent; it fails, or a   *)
(* response of some status arrives (the status is logged, not tested) and  *)
(* the body is read from its first byte into an empty buffer.              *)
DownloadSend(result) ==
  /\ call.eng.at = "send"
  /\ LET sent == [call.eng EXCEPT
                    !.reqs = Append(@, <<call.eng.file, call.eng.src>>)]
     IN call' = [call EXCEPT !.eng =
          IF result = NoResponse THEN FailAttempt(sent, "send")
          ELSE [sent EXCEPT !.at = "stream", !.status = result,
                            !.downloaded = 0]]
  /\ UNCHANGED <<db, indexVars, hostVars>>

(* One pass of the while loop: a chunk arrives and is appended. *)
DownloadChunk ==
  /\ call.eng.at = "stream"
  /\ call.eng.downloaded < BodyLen(call.eng.status)
  /\ call' = [call EXCEPT !.eng.downloaded = @ + 1]
  /\ UNCHANGED <<db, indexVars, hostVars>>

(* The stream yields an error before the end of the body. *)
DownloadStreamError ==
  /\ call.eng.at = "stream"
  /\ call.eng.downloaded < BodyLen(call.eng.status)
  /\ cache' = stream_error_cache(cache, call.eng.file, call.eng.status,
                                 call.eng.downloaded)
  /\ call' = [call EXCEPT !.eng = FailAttempt(call.eng, "stream")]
  /\ UNCHANGED <<db, indexVars, pc, lock, slot>>

(* The stream ended: std::fs::write(dest, &bytes).  It writes the buffer,  *)
(* or fails before creating the file, or fails after truncating it and     *)
(* writing a part.                                                         *)
DownloadWrite(result) ==
  /\ call.eng.at = "stream"
  /\ call.eng.downloaded = BodyLen(call.eng.status)
  /\ cache' = CASE result = "written" ->
                     [cache EXCEPT ![call.eng.file] =
                        Stored(call.eng.status, call.eng.downloaded)]
                [] result = "torn" ->
                     [cache EXCEPT ![call.eng.file] =
                        Torn(call.eng.status, call.eng.downloaded - 1)]
                [] OTHER -> cache
  /\ call' = [call EXCEPT !.eng =
       IF result = "written" THEN AfterFile(call.eng)
       ELSE FailAttempt(call.eng, "write")]
  /\ UNCHANGED <<db, indexVars, pc, lock, slot>>

(* A file the ONNX runtime or the tokenizer library can load. *)
Loadable(c, f) == c[f] = Stored(200, MaxBodyChunks)

(* commit_from_file(&model_path), Tokenizer::from_file(&tokenizer_path) *)
NewLoad(ok) ==
  /\ call.eng.at = "load"
  /\ ok => \A f \in EngineFiles : Loadable(cache, f)
  /\ call' = [call EXCEPT !.eng.at = "idle",
                          !.eng.outcome = IF ok THEN "ok" ELSE "load_error"]
  /\ UNCHANGED <<db, indexVars, hostVars>>

(* The task or the process is stopped while the request is out or the      *)
(* body is being received.                                                 *)
NewInterrupted ==
  /\ call.eng.at \in {"send", "stream"}
  /\ call' = [call EXCEPT !.eng.at = "idle", !.eng.outcome = "interrupted"]
  /\ UNCHANGED <<db, indexVars, hostVars>>

NextEngine ==
  \/ \E ok \in BOOLEAN : NewBegin(ok)
  \/ NewCheck
  \/ \E result \in {NoResponse} \cup Statuses : DownloadSend(result)
  \/ DownloadChunk
  \/ DownloadStreamError
  \/ \E result \in {"written", "torn", "untouched"} : DownloadWrite(result)
  \/ \E ok \in BOOLEAN : NewLoad(ok)
  \/ NewInterrupted

----------------------------------------------------------------------------
(* RagStore's writing calls, in any order, on one connection *)

MaxChunkSeq == 2

(* index_single_file in steps: where it is, what it read. *)
IdleRace == [at |-> "idle", content |-> << >>, readMtime |-> 0,
             stale |-> FALSE, passes |-> 0]

(* index_single_file call by call: its locals, and the batches it has     *)
(* handed to embed_batch so far.                                           *)
IdleSingle == [at |-> "idle", ok |-> TRUE, ret |-> 0, file_id |-> 0,
               chunks |-> << >>, batch_start |-> 0, j |-> 0,
               chunk_idx |-> 0, embeddings |-> << >>, batches |-> << >>]

(* python_setup.rs: the flag and where each calling task is. *)
SetupTasks == {"s1", "s2", "s3"}

IdleSetup == [flag |-> FALSE,
              at |-> [t \in SetupTasks |-> "idle"],
              ret |-> [t \in SetupTasks |-> "none"],
              calls |-> 0, downloads |-> 0,
              ev |-> [task |-> "none", ret |-> "none", downloads |-> 0]]

NoCall == [op |-> "none", path |-> "", mtime |-> 0, hash |-> << >>,
           ok |-> TRUE, ret |-> 0, hadRow |-> FALSE, hadChunks |-> 0,
           seenF |-> {}, top_k |-> 0, results |-> << >>,
           report |-> [files_removed |-> 0, chunks_removed |-> 0,
                       vacuumed |-> FALSE],
           ran |-> FALSE, outcome |-> "none", startDb |-> EmptyDb,
           startSlot |-> "none", lines |-> << >>, file_type |-> "none",
           chunks |-> << >>, root |-> << >>,
           tree |-> [files |-> {}, unreadable |-> {}],
           walk |-> [ok |-> TRUE, files |-> {}], eng |-> IdleEngine,
           texts |-> << >>, vectors |-> << >>, name |-> << >>,
           file |-> [bytes |-> << >>, readable |-> TRUE],
           extracted |-> [ok |-> TRUE, err |-> "none", text |-> << >>,
                          file_type |-> "none"],
           race |-> IdleRace, setup |-> IdleSetup,
           single |-> IdleSingle, issued |-> "none", startEdits |-> 0]

(* The (mtime, hash) pairs upsert_file is called with. *)
Versions == {<<1, Hash(<<"x">>)>>, <<2, Hash(<<"y", "z">>)>>}

ChunkInputs == {[content |-> "x", start_line |-> 1, end_line |-> 1]}

SeenFileIds == call.seenF \cup {f.id : f \in db.files}

UpsertFile(path, mtime, hash, n) ==
  /\ db.fseq < MaxFileSeq
  /\ LET r == upsert_file(db, path, mtime, hash, n) IN
     /\ db' = r.db
     /\ call' = [NoCall EXCEPT !.op = "upsert_file", !.path = path,
                                !.mtime = mtime, !.hash = hash, !.ok = r.ok,
                                !.ret = r.ret,
                                !.hadRow = FileRows(db, path) # {},
                                !.seenF = SeenFileIds]
  /\ UNCHANGED <<indexVars, hostVars>>

(* insert_chunk is called with the id upsert_file returned for a live row. *)
InsertChunk(file_id, chunk, n) ==
  /\ db.cseq < MaxChunkSeq
  /\ \E f \in db.files : f.id = file_id
  /\ LET r == insert_chunk(db, file_id, chunk, Embed(chunk.content), n) IN
     /\ db' = r.db
     /\ call' = [NoCall EXCEPT !.op = "insert_chunk", !.ok = r.ok,
                                !.seenF = SeenFileIds]
  /\ UNCHANGED <<indexVars, hostVars>>

DeleteFile(path, n) ==
  /\ LET r == delete_file(db, path, n) IN
     /\ db' = r.db
     /\ call' = [NoCall EXCEPT !.op = "delete_file", !.path = path,
                                !.ok = r.ok, !.ret = r.ret,
                                !.hadRow = FileRows(db, path) # {},
                                !.hadChunks =
                                   Cardinality(ChunkIdsOfPath(db, path)),
                                !.seenF = SeenFileIds]
  /\ UNCHANGED <<indexVars, hostVars>>

NextStore ==
  \/ \E path \in Paths, v \in Versions, n \in {NoFault, 0, 1, 2, 3} :
       UpsertFile(path, v[1], v[2], n)
  \/ \E file_id \in 1..MaxFileSeq, chunk \in ChunkInputs, n \in {NoFault, 0, 1} :
       InsertChunk(file_id, chunk, n)
  \/ \E path \in Paths, n \in {NoFault, 0, 1, 2} : DeleteFile(path, n)

InitStore ==
  /\ disk = [p \in Paths |-> NoFile]
  /\ edits = 0
  /\ db = EmptyDb
  /\ pass = IdlePass
  /\ last = NoLast
  /\ call = NoCall
  /\ HostInit

SpecStore == InitStore /\ [][NextStore]_vars

SpecHost == InitStore /\ [][NextHost]_vars

----------------------------------------------------------------------------
(* Indexer::search against a store filled by index_single_file calls *)

Queries == {"x", "y", "z"}

(* rag_search passes top_k.unwrap_or(5), search_knowledge passes 5. *)
TopKs == {0, 1, 2, 5}

(* index_single_file on one of the project's files, outside a pass. *)
IndexOne(path, fault) ==
  /\ db.fseq < MaxFileSeq
  /\ LET r == index_single_file(db, disk[path], path, fault) IN
     /\ db' = r.db
     /\ call' = [NoCall EXCEPT !.op = "index_single_file", !.path = path,
                                !.ok = r.ok, !.ret = r.ret]
  /\ UNCHANGED <<indexVars, hostVars>>

(* Indexer::search: embed the query (which can fail), then store.search. *)
Search(query, top_k, embedded) ==
  /\ IF embedded
     THEN \E res \in search(db, Embed(query), top_k) :
            call' = [NoCall EXCEPT !.op = "search", !.path = query,
                                   !.top_k = top_k, !.results = res]
     ELSE call' = [NoCall EXCEPT !.op = "search", !.path = query,
                                 !.top_k = top_k, !.ok = FALSE]
  /\ UNCHANGED <<db, indexVars, hostVars>>

NextQuery ==
  \/ \E path \in Paths, fault \in Faults : IndexOne(path, fault)
  \/ \E query \in Queries, top_k \in TopKs, embedded \in BOOLEAN :
       Search(query, top_k, embedded)

InitQuery ==
  /\ disk = [p \in Paths |->
               [exists |-> TRUE, mtime |-> 1,
                content |-> IF p = "a.md" THEN <<"y", "z">> ELSE <<"x">>]]
  /\ edits = 0
  /\ db = EmptyDb
  /\ pass = IdlePass
  /\ last = NoLast
  /\ call = NoCall
  /\ HostInit

SpecQuery == InitQuery /\ [][NextQuery]_vars

----------------------------------------------------------------------------
(* cleaner.rs *)

(* let vacuumed = files_removed > 100 *)
VacuumThreshold == 100

NoReport == [files_removed |-> 0, chunks_removed |-> 0, vacuumed |-> FALSE]

(* list_indexed_files: SELECT path FROM files has no ORDER BY; the rows    *)
(* come in rowid order, or in the opposite one.                            *)
list_indexed_files(d) ==
  LET ids == {f.id : f \in d.files}
      len == Cardinality(ids)
      Nth(k) == CHOOSE id \in ids : Cardinality({j \in ids : j <= id}) = k
      PathOf(id) == (CHOOSE f \in d.files : f.id = id).path
  IN {[i \in 1..len |-> PathOf(Nth(i))],
      [i \in 1..len |-> PathOf(Nth(len + 1 - i))]}

(* A check that finds no file at all. *)
path_exists_never(dsk, rel_path) == FALSE

(* project_dir.join(rel_path).exists() *)
path_exists(dsk, rel_path) == dsk[rel_path].exists

(* A threshold test that also fires at the threshold. *)
vacuum_needed_at_threshold(files_removed) == files_removed >= VacuumThreshold

(* files_removed > 100 *)
vacuum_needed(files_removed) == files_removed > VacuumThreshold

(* vacuum: one VACUUM statement; it changes no row. *)
vacuum(d, n) ==
  IF n = 0 THEN [db |-> d, n |-> 0, ok |-> FALSE]
  ELSE [db |-> d, n |-> Spend(n, 1), ok |-> TRUE]

(* One iteration of auto_cleanup's loop; st is the loop's state, and a     *)
(* failed delete_file has ended the loop (ok is FALSE).                    *)
CleanupEntry(st, dsk, rel_path) ==
  IF ~st.ok \/ path_exists(dsk, rel_path) THEN st
  ELSE LET r == delete_file(st.db, rel_path, st.n) IN
       IF ~r.ok THEN [st EXCEPT !.db = r.db, !.n = r.n, !.ok = FALSE]
       ELSE [st EXCEPT !.db = r.db, !.n = r.n,
                       !.files_removed = @ + 1,
                       !.chunks_removed = @ + r.ret]

(* The loop from entry i on; a failed delete_file returns from it. *)
RECURSIVE CleanupLoop(_, _, _, _)
CleanupLoop(st, dsk, indexed, i) ==
  IF i > Len(indexed) \/ ~st.ok THEN st
  ELSE CleanupLoop(CleanupEntry(st, dsk, indexed[i]), dsk, indexed, i + 1)

(* auto_cleanup: delete the record of every listed path that is not on     *)
(* disk, then vacuum if enough files went.  ran tells whether the VACUUM   *)
(* statement was executed.                                                 *)
auto_cleanup(d, dsk, indexed, n) ==
  LET l == CleanupLoop([db |-> d, n |-> n, ok |-> TRUE, files_removed |-> 0,
                        chunks_removed |-> 0], dsk, indexed, 1)
  IN
  IF ~l.ok THEN [db |-> l.db, ok |-> FALSE, report |-> NoReport, ran |-> FALSE]
  ELSE
    LET vacuumed == vacuum_needed(l.files_removed)
        report == [files_removed |-> l.files_removed,
                   chunks_removed |-> l.chunks_removed, vacuumed |-> vacuumed]
    IN IF vacuumed
       THEN LET v == vacuum(l.db, l.n) IN
            IF ~v.ok
            THEN [db |-> v.db, ok |-> FALSE, report |-> NoReport, ran |-> FALSE]
            ELSE [db |-> v.db, ok |-> TRUE, report |-> report, ran |-> TRUE]
       ELSE [db |-> l.db, ok |-> TRUE, report |-> report, ran |-> FALSE]

(* A project of more files than the vacuum threshold. *)
DocName(i) == <<"doc", i>>

ManyDocs == 1..(VacuumThreshold + 2)

DocFile(i) == [exists |-> TRUE, mtime |-> 1,
               content |-> IF i % 2 = 1 THEN <<"y", "z">> ELSE <<"x">>]

(* The store after files 1..k were indexed in turn, each once and without  *)
(* a fault: file i got id i, and its chunks the next free chunk ids.       *)
ChunkBase(i) == (i - 1) + (i \div 2)

IndexedDocs(k) ==
  LET ChunksOfDoc(i) ==
        LET chunks == chunk_text(DocFile(i).content) IN
        {[id |-> ChunkBase(i) + j, file_id |-> i,
          content |-> chunks[j].content, start_line |-> chunks[j].start_line,
          end_line |-> chunks[j].end_line] : j \in 1..Len(chunks)}
      allChunks == UNION {ChunksOfDoc(i) : i \in 1..k}
  IN [files |-> {[id |-> i, path |-> DocName(i), mtime |-> DocFile(i).mtime,
                  hash |-> Hash(DocFile(i).content)] : i \in 1..k},
      chunks |-> allChunks,
      vecs |-> {[chunk_id |-> c.id, embedding |-> Embed(c.content)] :
                  c \in allChunks},
      fseq |-> k,
      cseq |-> ChunkBase(k + 1)]

(* Other programs remove the files numbered lo..hi, a batch at the low or  *)
(* at the high end of the files still there.                               *)
Endpoints == {1, VacuumThreshold, VacuumThreshold + 1, VacuumThreshold + 2}

Alive == {i \in ManyDocs : disk[DocName(i)].exists}

RemoveFiles(lo, hi) ==
  /\ lo <= hi
  /\ \A i \in lo..hi : i \in Alive
  /\ lo = Min(Alive) \/ hi = Max(Alive)
  /\ disk' = [p \in DOMAIN disk |->
                IF p[2] \in lo..hi THEN NoFile ELSE disk[p]]
  /\ UNCHANGED <<edits, db, pass, last, call, hostVars>>

(* No fault, a fault in the first delete_file, a fault in the VACUUM. *)
CleanupBudgets == {NoFault, 1, 3 * VacuumThreshold + 3}

Cleanup(n) ==
  /\ \E indexed \in list_indexed_files(db) :
       LET r == auto_cleanup(db, disk, indexed, n) IN
       /\ db' = r.db
       /\ call' = [NoCall EXCEPT !.op = "auto_cleanup", !.ok = r.ok,
                                  !.report = r.report, !.ran = r.ran]
  /\ UNCHANGED <<indexVars, hostVars>>

NextCleanup ==
  \/ \E lo \in Endpoints, hi \in Endpoints : RemoveFiles(lo, hi)
  \/ \E n \in CleanupBudgets : Cleanup(n)

InitCleanup ==
  /\ disk = [p \in {DocName(i) : i \in ManyDocs} |-> DocFile(p[2])]
  /\ edits = 0
  /\ db = IndexedDocs(VacuumThreshold + 2)
  /\ pass = IdlePass
  /\ last = NoLast
  /\ call = NoCall
  /\ HostInit

SpecCleanup == InitCleanup /\ [][NextCleanup]_vars

----------------------------------------------------------------------------
(* rag_init from its call to its return, one caller, with what it does to  *)
(* the Store; call records the store and the slot it found, and how many   *)
(* changes other programs had made to the directory by then.               *)

(* RagStore::open (which fails, or finds the database as it is) and        *)
(* let _ = auto_cleanup(&store, &dir_path): its result is dropped.         *)
RagInitOpen(t, dir, opened, n) ==
  /\ At(t, "idle")
  /\ pass.st # "running"
  /\ pass' = IdlePass
  /\ last' = NoLast
  /\ IF ~opened
     THEN /\ call' = [NoCall EXCEPT !.op = "rag_init", !.ok = FALSE,
                                    !.outcome = "err", !.startDb = db,
                                    !.startSlot = slot, !.startEdits = edits]
          /\ UNCHANGED <<db, pc>>
     ELSE /\ \E indexed \in list_indexed_files(db) :
               db' = auto_cleanup(db, disk, indexed, n).db
          /\ call' = [NoCall EXCEPT !.op = "rag_init",
                                    !.outcome = "running", !.startDb = db,
                                    !.startSlot = slot, !.startEdits = edits]
          /\ pc' = [pc EXCEPT ![t] = [at |-> "new", dir |-> dir,
                                      cmd |-> "rag_init"]]
  /\ UNCHANGED <<disk, edits, lock, slot, cache>>

(* EmbeddingEngine::new(&app).await?: the files it downloaded stay in the  *)
(* model directory whether or not it succeeds.                             *)
RagInitEngine(t, ok, model, tokenizer) ==
  /\ At(t, "new")
  /\ ok => model /\ tokenizer
  /\ cache' = [model |-> cache.model \/ model,
               tokenizer |-> cache.tokenizer \/ tokenizer]
  /\ IF ok THEN /\ Goto(t, "indexing")
                /\ call' = call
     ELSE /\ pc' = [pc EXCEPT ![t] = Idle]
          /\ call' = [call EXCEPT !.ok = FALSE, !.outcome = "err"]
  /\ UNCHANGED <<disk, edits, db, pass, last, lock, slot>>

(* indexer.index_all(&dir_path, &app)?: the walk, then the loop. *)
RagInitWalk(t, walk) ==
  /\ At(t, "indexing")
  /\ pass.st = "idle"
  /\ StartPass(walk)

RagInitIndexFile(t, fault) ==
  /\ At(t, "indexing")
  /\ IndexFile(fault)

(* index_all has returned: Err is passed on; Ok stores the indexer in the  *)
(* slot and returns Ok(()).                                                *)
RagInitReturn(t) ==
  /\ At(t, "indexing")
  /\ pass.st \in {"ok", "err"}
  /\ IF pass.st = "ok"
     THEN /\ slot' = pc[t].dir
          /\ call' = [call EXCEPT !.ok = TRUE, !.outcome = "ok"]
     ELSE /\ slot' = slot
          /\ call' = [call EXCEPT !.ok = FALSE, !.outcome = "err"]
  /\ pc' = [pc EXCEPT ![t] = Idle]
  /\ UNCHANGED <<disk, edits, db, pass, last, lock, cache>>

NextInit ==
  \/ \E opened \in BOOLEAN, n \in {NoFault, 1} :
       RagInitOpen("t1", "projA", opened, n)
  \/ \E ok \in BOOLEAN, model \in BOOLEAN, tokenizer \in BOOLEAN :
       RagInitEngine("t1", ok, model, tokenizer)
  \/ \E walk \in {"ok", "root", "sub"} : RagInitWalk("t1", walk)
  \/ \E fault \in Faults : RagInitIndexFile("t1", fault)
  \/ RagInitReturn("t1")
  \/ \E p \in Paths, c \in Contents, m \in Mtimes : WriteFile(p, c, m)
  \/ \E p \in Paths : RemoveFile(p)

InitInit ==
  /\ disk = [p \in Paths |->
               [exists |-> TRUE, mtime |-> 1,
                content |-> IF p = "a.md" THEN <<"y", "z">> ELSE <<"x">>]]
  /\ edits = 0
  /\ db = EmptyDb
  /\ pass = IdlePass
  /\ last = NoLast
  /\ call = NoCall
  /\ HostInit

SpecInit == InitInit /\ [][NextInit]_vars

----------------------------------------------------------------------------
(* chunker.rs, line by line.  A text is the sequence of its lines (what    *)
(* content.lines() yields); a line is known by its number of characters,   *)
(* of CJK characters and of whitespace-separated words, by whether it      *)
(* starts with '#', and by its heading title.                              *)

TARGET_TOKENS == 300

MAX_TOKENS == 500

OVERLAP_TOKENS == 50

BlankLine == [chars |-> 0, cjk |-> 0, words |-> 0, hash |-> FALSE,
              title |-> ""]

(* n one-letter words with single spaces between them. *)
Latin(n) == [chars |-> 2 * n - 1, cjk |-> 0, words |-> n, hash |-> FALSE,
             title |-> ""]

(* n ideographs without a space. *)
Cjk(n) == [chars |-> n, cjk |-> n, words |-> 1, hash |-> FALSE, title |-> ""]

(* "# T" *)
HeadingLine == [chars |-> 3, cjk |-> 0, words |-> 2, hash |-> TRUE,
                title |-> "T"]

(* "## U" *)
SubHeadingLine == [chars |-> 4, cjk |-> 0, words |-> 2, hash |-> TRUE,
                   title |-> "U"]

RECURSIVE SumSeq(_)
SumSeq(s) == IF s = << >> THEN 0 ELSE Head(s) + SumSeq(Tail(s))

(* The text lines.join("\n") has the lines' characters and a newline       *)
(* between two lines; a newline separates words.                           *)
JoinedChars(ls) ==
  IF ls = << >> THEN 0
  ELSE SumSeq([i \in 1..Len(ls) |-> ls[i].chars]) + Len(ls) - 1

JoinedCjk(ls) == SumSeq([i \in 1..Len(ls) |-> ls[i].cjk])

JoinedWords(ls) == SumSeq([i \in 1..Len(ls) |-> ls[i].words])

(* estimate_tokens of the joined lines *)
estimate_tokens(ls) ==
  IF JoinedCjk(ls) > JoinedChars(ls) \div 3
  THEN (JoinedChars(ls) * 2 + 2) \div 3
  ELSE Max({JoinedWords(ls), 1})

(* line.trim().is_empty() *)
IsBlank(line) == line.words = 0 /\ line.cjk = 0

(* A Chunk whose line range counts from 0. *)
Chunk_from_zero(ls, start_line, end_line, heading) ==
  [content |-> ls, start_line |-> start_line - 1, end_line |-> end_line - 1,
   heading |-> heading]

(* Chunk: the lines of its content, its 1-indexed line range, its heading. *)
Chunk(ls, start_line, end_line, heading) ==
  [content |-> ls, start_line |-> start_line, end_line |-> end_line,
   heading |-> heading]

(* while end < lines.len() && tokens < TARGET_TOKENS (indices from 0) *)
RECURSIVE GrowEnd(_, _, _)
GrowEnd(ls, end, tokens) ==
  IF end < Len(ls) /\ tokens < TARGET_TOKENS
  THEN GrowEnd(ls, end + 1, tokens + estimate_tokens(<<ls[end + 1]>>) + 1)
  ELSE end

(* while new_start > start && overlap_tokens < OVERLAP_TOKENS *)
RECURSIVE BackOverlap(_, _, _, _)
BackOverlap(ls, start, new_start, overlap_tokens) ==
  IF new_start > start /\ overlap_tokens < OVERLAP_TOKENS
  THEN BackOverlap(ls, start, new_start - 1,
                   overlap_tokens + estimate_tokens(<<ls[new_start]>>) + 1)
  ELSE new_start

(* A next start that leaves the line at end out. *)
next_start_past_end(start, new_start, end) == end + 1

(* start = if new_start > start { new_start } else { end } *)
next_start(start, new_start, end) ==
  IF new_start > start THEN new_start ELSE end

(* The outer loop of subdivide_lines from index start (from 0). *)
RECURSIVE SubdivideFrom(_, _, _, _)
SubdivideFrom(ls, base_line, heading, start) ==
  LET end == GrowEnd(ls, start, 0)
      chunk == Chunk(SubSeq(ls, start + 1, end), base_line + start + 1,
                     base_line + end, heading)
      new_start == BackOverlap(ls, start, end, 0)
  IN IF end >= Len(ls) THEN <<chunk>>
     ELSE <<chunk>> \o SubdivideFrom(ls, base_line, heading,
                                      next_start(start, new_start, end))

subdivide_lines(ls, base_line, heading) ==
  IF ls = << >> THEN << >>
  ELSE IF estimate_tokens(ls) <= MAX_TOKENS
  THEN <<Chunk(ls, base_line + 1, base_line + Len(ls), heading)>>
  ELSE SubdivideFrom(ls, base_line, heading, 0)

(* chunk_markdown's first loop, at line i (from 0): the sections found so  *)
(* far, the current heading and where the current section starts.          *)
RECURSIVE MarkdownSections(_, _, _, _, _)
MarkdownSections(ls, i, sections, current_heading, section_start) ==
  IF i >= Len(ls)
  THEN Append(sections, <<current_heading, section_start, Len(ls) - 1>>)
  ELSE IF ls[i + 1].hash
  THEN MarkdownSections(
         ls, i + 1,
         IF i > 0
         THEN Append(sections, <<current_heading, section_start, i - 1>>)
         ELSE sections,
         Some(ls[i + 1].title), i)
  ELSE MarkdownSections(ls, i + 1, sections, current_heading, section_start)

RECURSIVE MarkdownChunks(_, _, _)
MarkdownChunks(ls, sections, k) ==
  IF k > Len(sections) THEN << >>
  ELSE LET heading == sections[k][1]
           start == sections[k][2]
           end == sections[k][3]
           section == SubSeq(ls, start + 1, end + 1)
       IN (IF estimate_tokens(section) <= MAX_TOKENS
           THEN <<Chunk(section, start + 1, end + 1, heading)>>
           ELSE subdivide_lines(section, start, heading))
            \o MarkdownChunks(ls, sections, k + 1)

(* chunk_markdown without its split at headings. *)
chunk_markdown_no_headings(ls) ==
  IF ls = << >> THEN << >> ELSE subdivide_lines(ls, 0, None)

chunk_markdown(ls) ==
  IF ls = << >> THEN << >>
  ELSE MarkdownChunks(ls, MarkdownSections(ls, 0, << >>, None, 0), 1)

(* chunk_code's loop at line i (from 0), then its last block. *)
RECURSIVE CodeBlocks(_, _, _, _)
CodeBlocks(ls, i, block_start, blank_count) ==
  IF i >= Len(ls)
  THEN IF block_start < Len(ls)
       THEN subdivide_lines(SubSeq(ls, block_start + 1, Len(ls)),
                            block_start, None)
       ELSE << >>
  ELSE IF IsBlank(ls[i + 1])
  THEN CodeBlocks(ls, i + 1, block_start, blank_count + 1)
  ELSE IF blank_count >= 2 /\ i > block_start
  THEN (IF estimate_tokens(SubSeq(ls, block_start + 1, i)) > 0
        THEN subdivide_lines(SubSeq(ls, block_start + 1, i), block_start,
                             None)
        ELSE << >>)
         \o CodeBlocks(ls, i + 1, i, 0)
  ELSE CodeBlocks(ls, i + 1, block_start, 0)

chunk_code(ls) == IF ls = << >> THEN << >> ELSE CodeBlocks(ls, 0, 0, 0)

(* chunk_plain that stops at the first blank line. *)
chunk_plain_first_paragraph(ls) ==
  LET blanks == {i \in 1..Len(ls) : IsBlank(ls[i])}
      stop == IF blanks = {} THEN Len(ls)
              ELSE (CHOOSE i \in blanks : \A k \in blanks : i <= k) - 1
  IN subdivide_lines(SubSeq(ls, 1, stop), 0, None)

(* chunk_plain's loop at line i (from 0), then its last paragraph. *)
RECURSIVE PlainParagraphs(_, _, _, _)
PlainParagraphs(ls, i, para_start, prev_blank) ==
  IF i >= Len(ls)
  THEN IF para_start < Len(ls)
       THEN subdivide_lines(SubSeq(ls, para_start + 1, Len(ls)), para_start,
                            None)
       ELSE << >>
  ELSE IF IsBlank(ls[i + 1]) /\ ~prev_blank /\ i > para_start
  THEN subdivide_lines(SubSeq(ls, para_start + 1, i), para_start, None)
         \o PlainParagraphs(ls, i + 1, i + 1, TRUE)
  ELSE PlainParagraphs(ls, i + 1, para_start, IsBlank(ls[i + 1]))

chunk_plain(ls) ==
  IF ls = << >> THEN << >> ELSE PlainParagraphs(ls, 0, 0, FALSE)

(* chunk_text(content, file_type) *)
ChunkText(ls, file_type) ==
  CASE file_type = "Markdown" -> chunk_markdown(ls)
    [] file_type = "Code" -> chunk_code(ls)
    [] file_type \in {"PlainText", "Pdf", "Docx", "Xlsx"} -> chunk_plain(ls)
    [] file_type = "Unsupported" -> << >>

(* The texts and file types chunk_text is applied to. *)
MaxLines == 4

LineKinds == {BlankLine, HeadingLine, SubHeadingLine, Latin(3),
              Latin(TARGET_TOKENS - 2),
              Latin(MAX_TOKENS - OVERLAP_TOKENS), Latin(MAX_TOKENS + 1),
              Cjk(4)}

ChunkerTexts == UNION {[1..n -> LineKinds] : n \in 0..MaxLines}

FileTypes == {"Markdown", "Code", "PlainText", "Pdf", "Unsupported"}

ChunkTextCall ==
  /\ call.op = "chunk_input"
  /\ call' = [call EXCEPT !.op = "chunk_text",
                          !.chunks = ChunkText(call.lines, call.file_type)]
  /\ UNCHANGED <<db, indexVars, hostVars>>

(* subdivide_lines applied to the whole text as one section. *)
SubdivideCall ==
  /\ call.op = "chunk_input"
  /\ call' = [call EXCEPT !.op = "subdivide_lines",
                          !.chunks = subdivide_lines(call.lines, 0, None)]
  /\ UNCHANGED <<db, indexVars, hostVars>>

NextChunk == ChunkTextCall \/ SubdivideCall

InitChunk ==
  /\ disk = [p \in Paths |-> NoFile]
  /\ edits = 0
  /\ db = EmptyDb
  /\ pass = IdlePass
  /\ last = NoLast
  /\ call \in {[NoCall EXCEPT !.op = "chunk_input", !.lines = ls,
                               !.file_type = ft] :
                 ls \in ChunkerTexts, ft \in FileTypes}
  /\ HostInit

SpecChunk == InitChunk /\ [][NextChunk]_vars

----------------------------------------------------------------------------
(* extractor.rs, indexer.rs: the walk over the project tree                 *)
(* (specification SpecWalk).  A name is the sequence of its characters, a   *)
(* path the sequence of its names; a tree is the set of its files, each     *)
(* with the names from the root down to it, its kind and its length in      *)
(* bytes, and the set of its directories that cannot be read.               *)

MAX_INDEX_SIZE == 10 * 1024 * 1024

SKIP_DIRS ==
  {<<"n", "o", "d", "e", "_", "m", "o", "d", "u", "l", "e", "s">>,
   <<".", "g", "i", "t">>, <<"t", "a", "r", "g", "e", "t">>,
   <<"d", "i", "s", "t">>, <<"b", "u", "i", "l", "d">>,
   <<".", "n", "e", "x", "t">>,
   <<"_", "_", "p", "y", "c", "a", "c", "h", "e", "_", "_">>,
   <<".", "v", "e", "n", "v">>, <<"v", "e", "n", "v">>,
   <<".", "i", "n", "k", "e", "s", "s">>,
   <<".", "D", "S", "_", "S", "t", "o", "r", "e">>,
   <<"v", "e", "n", "d", "o", "r">>,
   <<"c", "o", "v", "e", "r", "a", "g", "e">>,
   <<".", "c", "a", "c", "h", "e">>,
   <<".", "p", "a", "r", "c", "e", "l", "-", "c", "a", "c", "h", "e">>}

TEXT_EXTENSIONS ==
  {<<"m", "d">>, <<"m", "d", "x">>, <<"t", "x", "t">>, <<"r", "s", "t">>,
   <<"a", "d", "o", "c">>, <<"o", "r", "g">>, <<"h", "t", "m", "l">>,
   <<"h", "t", "m">>, <<"c", "s", "s">>, <<"s", "c", "s", "s">>,
   <<"l", "e", "s", "s">>, <<"j", "s">>, <<"j", "s", "x">>, <<"t", "s">>,
   <<"t", "s", "x">>, <<"v", "u", "e">>, <<"s", "v", "e", "l", "t", "e">>,
   <<"r", "s">>, <<"p", "y">>, <<"g", "o">>, <<"j", "a", "v", "a">>,
   <<"k", "t">>, <<"s", "w", "i", "f", "t">>, <<"d", "a", "r", "t">>,
   <<"c">>, <<"c", "p", "p">>, <<"h">>, <<"h", "p", "p">>, <<"c", "s">>,
   <<"r", "b">>, <<"p", "h", "p">>, <<"l", "u", "a">>, <<"r">>,
   <<"j", "l">>, <<"z", "i", "g">>, <<"n", "i", "m">>, <<"e", "x">>,
   <<"e", "x", "s">>, <<"h", "s">>, <<"m", "l">>, <<"c", "l", "j">>,
   <<"s", "c", "a", "l", "a">>, <<"g", "r", "o", "o", "v", "y">>,
   <<"j", "s", "o", "n">>, <<"y", "a", "m", "l">>, <<"y", "m", "l">>,
   <<"t", "o", "m", "l">>, <<"x", "m", "l">>, <<"c", "s", "v">>,
   <<"i", "n", "i">>, <<"c", "o", "n", "f">>, <<"c", "f", "g">>,
   <<"e", "n", "v">>, <<"p", "r", "o", "p", "e", "r", "t", "i", "e", "s">>,
   <<"l", "o", "c", "k">>, <<"s", "h">>, <<"b", "a", "s", "h">>,
   <<"z", "s", "h">>, <<"f", "i", "s", "h">>, <<"p", "s", "1">>,
   <<"b", "a", "t">>, <<"c", "m", "d">>, <<"s", "q", "l">>,
   <<"g", "r", "a", "p", "h", "q", "l">>, <<"g", "q", "l">>,
   <<"p", "r", "o", "t", "o">>,
   <<"d", "o", "c", "k", "e", "r", "f", "i", "l", "e">>,
   <<"m", "a", "k", "e", "f", "i", "l", "e">>, <<"c", "m", "a", "k", "e">>,
   <<"g", "r", "a", "d", "l", "e">>}

(* The text extensions detect_file_type maps to PlainText. *)
PlainTextExtensions ==
  {<<"j", "s", "o", "n">>, <<"y", "a", "m", "l">>, <<"y", "m", "l">>,
   <<"t", "o", "m", "l">>, <<"x", "m", "l">>, <<"c", "s", "v">>,
   <<"i", "n", "i">>, <<"c", "o", "n", "f">>, <<"c", "f", "g">>,
   <<"e", "n", "v">>, <<"p", "r", "o", "p", "e", "r", "t", "i", "e", "s">>,
   <<"l", "o", "c", "k">>}

(* The names without extension detect_file_type maps to PlainText. *)
PlainTextNames ==
  {<<"r", "e", "a", "d", "m", "e">>, <<"l", "i", "c", "e", "n", "s", "e">>,
   <<"c", "h", "a", "n", "g", "e", "l", "o", "g">>,
   <<"m", "a", "k", "e", "f", "i", "l", "e">>,
   <<"d", "o", "c", "k", "e", "r", "f", "i", "l", "e">>,
   <<"c", "m", "a", "k", "e", "l", "i", "s", "t", "s", ".", "t", "x", "t">>,
   <<".", "g", "i", "t", "i", "g", "n", "o", "r", "e">>,
   <<".", "e", "d", "i", "t", "o", "r", "c", "o", "n", "f", "i", "g">>,
   <<".", "e", "n", "v">>}

(* char::to_lowercase on the capital letters the names of the model use. *)
LowerChar(c) ==
  CASE c = "A" -> "a" [] c = "D" -> "d" [] c = "E" -> "e" [] c = "M" -> "m"
    [] c = "R" -> "r" [] OTHER -> c

to_lowercase(s) == [i \in 1..Len(s) |-> LowerChar(s[i])]

(* Path::extension: what follows the last '.' of the file name; none when   *)
(* the name has no '.' or only the one it begins with.                      *)
extension(name) ==
  LET dots == {i \in 1..Len(name) : name[i] = "."}
      m == IF dots = {} THEN 0 ELSE CHOOSE i \in dots : \A j \in dots : j <= i
  IN IF m <= 1 THEN << >> ELSE SubSeq(name, m + 1, Len(name))

detect_file_type(name) ==
  LET ext == to_lowercase(extension(name)) IN
  IF ext \in {<<"m", "d">>, <<"m", "d", "x">>} THEN "Markdown"
  ELSE IF ext \in {<<"t", "x", "t">>, <<"r", "s", "t">>,
                   <<"a", "d", "o", "c">>, <<"o", "r", "g">>}
    THEN "PlainText"
  ELSE IF ext = <<"P", "D", "F">> THEN "Pdf"
  ELSE IF ext = <<"D", "O", "C", "X">> THEN "Docx"
  ELSE IF ext \in {<<"x", "l", "s", "x">>, <<"x", "l", "s">>,
                   <<"o", "d", "s">>}
    THEN "Xlsx"
  ELSE IF ext = << >>
    THEN IF to_lowercase(name) \in PlainTextNames THEN "PlainText"
         ELSE "Unsupported"
  ELSE IF ext \in TEXT_EXTENSIONS
    THEN IF ext \in PlainTextExtensions THEN "PlainText" ELSE "Code"
  ELSE "Unsupported"

(* should_index: path is the full path, root included. *)
should_index(path, file) ==
  /\ \A i \in 1..Len(path) : path[i] \notin SKIP_DIRS
  /\ file.len <= MAX_INDEX_SIZE
  /\ file.kind = "file"
  /\ detect_file_type(path[Len(path)]) # "Unsupported"

starts_with_dot(name) == name # << >> /\ name[1] = "."

(* The names of a path joined by '/'. *)
RECURSIVE JoinPath(_)
JoinPath(segs) ==
  IF Len(segs) = 0 THEN << >>
  ELSE IF Len(segs) = 1 THEN segs[1]
  ELSE segs[1] \o <<"/">> \o JoinPath(Tail(segs))

(* replace('\\', "/") *)
replace_backslash(s) ==
  [i \in 1..Len(s) |-> IF s[i] = "\\" THEN "/" ELSE s[i]]

(* strip_prefix(base), to_string_lossy, replace: the root-relative path. *)
RelPath(segs) == replace_backslash(JoinPath(segs))

IsUnder(segs, dir) ==
  Len(segs) > Len(dir) /\ SubSeq(segs, 1, Len(dir)) = dir

(* read_dir: the files and the directories directly in dir. *)
FilesIn(tree, dir) ==
  {f \in tree.files : IsUnder(f.segs, dir) /\ Len(f.segs) = Len(dir) + 1}

DirsIn(tree, dir) ==
  {SubSeq(f.segs, 1, Len(dir) + 1) :
     f \in {g \in tree.files :
              IsUnder(g.segs, dir) /\ Len(g.segs) > Len(dir) + 1}}

too_deep(depth) == depth > 8

(* collect_files_recursive: ok is FALSE when a read_dir failed (the walk    *)
(* then returns Err and its files are dropped); files are the pairs         *)
(* (full path, root-relative path) pushed to result, whose order is that    *)
(* of read_dir and is not modelled.                                         *)
RECURSIVE collect_files_recursive(_, _, _, _)
collect_files_recursive(tree, base, dir, depth) ==
  IF too_deep(depth) THEN [ok |-> TRUE, files |-> {}]
  ELSE IF dir \in tree.unreadable THEN [ok |-> FALSE, files |-> {}]
  ELSE
    LET entered == {d \in DirsIn(tree, dir) :
                      ~(starts_with_dot(d[Len(d)]) \/ d[Len(d)] \in SKIP_DIRS)}
        below == {collect_files_recursive(tree, base, d, depth + 1) :
                    d \in entered}
        here == {f \in FilesIn(tree, dir) : should_index(base \o f.segs, f)}
    IN [ok |-> \A r \in below : r.ok,
        files |-> UNION {r.files : r \in below}
                    \cup {[path |-> base \o f.segs, rel |-> RelPath(f.segs),
                           segs |-> f.segs] : f \in here}]

WalkTree(tree, base) == collect_files_recursive(tree, base, << >>, 0)

(* Bounds of the walk's inputs. *)
MaxWalkDepth == 9
MaxTreeFiles == 2

DirD == <<"d">>
DirHidden == <<".", "h">>
DirTarget == <<"t", "a", "r", "g", "e", "t">>
DirBuild == <<"b", "u", "i", "l", "d">>
NameMd == <<"a", ".", "m", "d">>
NameUpper == <<"A", ".", "M", "D">>
NameEnv == <<".", "e", "n", "v">>
NameHiddenMd == <<".", "x", ".", "m", "d">>
NameBin == <<"b", ".", "b", "i", "n">>
NameBig == <<"b", "i", "g", ".", "m", "d">>
NameCap == <<"c", "a", "p", ".", "m", "d">>
NameFifo == <<"f", ".", "m", "d">>

(* name, k directories below the root. *)
Below(k, name) == [i \in 1..k |-> DirD] \o <<name>>

RegularFile(segs) == [segs |-> segs, kind |-> "file", len |-> 100]

CandidateFiles ==
  {RegularFile(Below(k, NameMd)) : k \in 0..MaxWalkDepth}
    \cup {RegularFile(<<NameEnv>>), RegularFile(<<NameUpper>>),
          RegularFile(<<NameBin>>), RegularFile(<<DirD, NameHiddenMd>>),
          RegularFile(<<DirHidden, NameMd>>),
          RegularFile(<<DirTarget, NameMd>>),
          RegularFile(<<DirD, DirTarget, NameMd>>),
          [segs |-> <<NameBig>>, kind |-> "file",
           len |-> MAX_INDEX_SIZE + 1],
          [segs |-> <<NameCap>>, kind |-> "file", len |-> MAX_INDEX_SIZE],
          [segs |-> <<NameFifo>>, kind |-> "fifo", len |-> 0]}

Trees ==
  {[files |-> fs, unreadable |-> u] :
     fs \in {s \in SUBSET CandidateFiles : Cardinality(s) <= MaxTreeFiles},
     u \in {{}, {<<DirD>>}}}

(* The directories index_all is given. *)
Roots == {<<<<"h", "o", "m", "e">>, <<"p">>>>,
          <<<<"h", "o", "m", "e">>, DirBuild, <<"p">>>>}

(* collect_files(dir, dir) of index_all. *)
CollectFilesCall ==
  /\ call.op = "walk_input"
  /\ call' = [call EXCEPT !.op = "collect_files",
                          !.walk = WalkTree(call.tree, call.root)]
  /\ UNCHANGED <<db, indexVars, hostVars>>

NextWalk == CollectFilesCall

InitWalk ==
  /\ disk = [p \in Paths |-> NoFile]
  /\ edits = 0
  /\ db = EmptyDb
  /\ pass = IdlePass
  /\ last = NoLast
  /\ call \in {[NoCall EXCEPT !.op = "walk_input", !.tree = t, !.root = r] :
                 t \in Trees, r \in Roots}
  /\ HostInit

SpecWalk == InitWalk /\ [][NextWalk]_vars

----------------------------------------------------------------------------
(* Specification SpecEngine: calls of EmbeddingEngine::new on a model      *)
(* directory that holds each file whole, from an earlier run, or not.      *)

InitEngine ==
  /\ disk = [p \in Paths |-> NoFile]
  /\ edits = 0
  /\ db = EmptyDb
  /\ pass = IdlePass
  /\ last = NoLast
  /\ call = NoCall
  /\ pc = [t \in Procs |-> Idle]
  /\ lock = "free"
  /\ slot = "none"
  /\ cache \in [EngineFiles -> {Absent, Stored(200, MaxBodyChunks)}]

SpecEngine == InitEngine /\ [][NextEngine]_vars

----------------------------------------------------------------------------
(* embedding.rs: embed_batch (specification SpecEmbed).  A text is the      *)
(* sequence of its token ids.  Arrays are indexed from 0 and flat, as in    *)
(* the source.  A vector holds integers num and the square s.n / s.d of a   *)
(* positive factor: its component k is num[k] * sqrt(s.n / s.d), which      *)
(* keeps the divisions by count and by the norm exact.                      *)

EMBEDDING_DIM == 384
MAX_SEQ_LEN == 256

(* Bound: texts in a batch. *)
MaxBatch == 3

(* Token ids the tokenizer adds: padding, start and end of a sequence. *)
PAD == 0
CLS == 101
SEP == 102

(* tokenizer.encode_batch(texts, true): ids with the special tokens added, *)
(* and the attention mask of the ids.                                      *)
Encode(text) ==
  LET ids == <<CLS>> \o text \o <<SEP>>
  IN [ids |-> ids, mask |-> [j \in 1..Len(ids) |-> 1]]

(* encodings.iter().map(|e| e.get_ids().len().min(MAX_SEQ_LEN)).max() *)
MaxLen(encodings) ==
  IF encodings = << >> THEN 0
  ELSE Max({Min({Len(encodings[i].ids), MAX_SEQ_LEN}) :
              i \in 1..Len(encodings)})

(* input_ids and attention_mask: batch_size * max_len cells, zero where    *)
(* the text has no token.                                                  *)
FlatCells(encodings, max_len, field) ==
  [n \in 0..(Len(encodings) * max_len - 1) |->
     LET e == encodings[(n \div max_len) + 1]
         j == n % max_len
     IN IF j < Min({Len(e.ids), max_len}) THEN e[field][j + 1] ELSE 0]

(* The model: component k of the hidden state of a token. *)
Hidden(id, k) ==
  CASE id = CLS -> IF k = 0 THEN 1 ELSE 0
    [] id = SEP -> 0
    [] id = PAD -> 5
    [] id = 1 -> (k % 2) + 1
    [] id = 2 -> 0 - ((k % 2) + 1)
    [] OTHER -> IF k = 0 THEN 0 - 1 ELSE 0

(* outputs[0]: batch_size * max_len * EMBEDDING_DIM values. *)
OutputData(input_ids, offset) ==
  Hidden(input_ids[offset \div EMBEDDING_DIM], offset % EMBEDDING_DIM)

RECURSIVE SumRange(_, _, _)
SumRange(f, lo, hi) ==
  IF lo > hi THEN 0
  ELSE IF lo = hi THEN f[lo]
  ELSE SumRange(f, lo, (lo + hi) \div 2)
         + SumRange(f, ((lo + hi) \div 2) + 1, hi)

(* The sum of the hidden states of text i over the positions its mask      *)
(* marks, and their count.                                                 *)
PooledSum(input_ids, attention_mask, max_len, i) ==
  [k \in 0..(EMBEDDING_DIM - 1) |->
     SumRange([j \in 0..(max_len - 1) |->
                 IF attention_mask[i * max_len + j] = 1
                 THEN OutputData(input_ids,
                                 (i * max_len + j) * EMBEDDING_DIM + k)
                 ELSE 0],
              0, max_len - 1)]

MaskCount(attention_mask, max_len, i) ==
  SumRange([j \in 0..(max_len - 1) |->
              IF attention_mask[i * max_len + j] = 1 THEN 1 ELSE 0],
           0, max_len - 1)

(* if count > 0.0 { *v /= count } *)
DivideByCount(vec, count) ==
  IF count > 0 THEN [vec EXCEPT !.s.d = @ * count * count] ELSE vec

(* The square of the Euclidean norm, as a fraction. *)
NormSq(vec) ==
  [n |-> SumRange([k \in 0..(EMBEDDING_DIM - 1) |-> vec.num[k] * vec.num[k]],
                  0, EMBEDDING_DIM - 1) * vec.s.n,
   d |-> vec.s.d]

(* An L2 normalisation that leaves the vector as it is. *)
l2_normalize_skipped(vec) == vec

(* if norm > 0.0 { *v /= norm } *)
l2_normalize(vec) ==
  LET norm2 == NormSq(vec)
  IN IF norm2.n > 0
     THEN [vec EXCEPT !.s = [n |-> vec.s.n * norm2.d, d |-> vec.s.d * norm2.n]]
     ELSE vec

(* The mean-pooled vector of text i, before the normalisation. *)
Pooled(input_ids, attention_mask, max_len, i) ==
  DivideByCount([num |-> PooledSum(input_ids, attention_mask, max_len, i),
                 s |-> [n |-> 1, d |-> 1]],
                MaskCount(attention_mask, max_len, i))

embed_batch(texts) ==
  IF texts = << >> THEN << >>
  ELSE
    LET encodings == [i \in 1..Len(texts) |-> Encode(texts[i])]
        max_len == MaxLen(encodings)
        input_ids == FlatCells(encodings, max_len, "ids")
        attention_mask == FlatCells(encodings, max_len, "mask")
    IN [i \in 1..Len(texts) |->
          l2_normalize(Pooled(input_ids, attention_mask, max_len, i - 1))]

(* The texts of the batches. *)
EmbedTexts == {<< >>, <<1>>, <<1, 2>>, <<3>>}

Batches == UNION {[1..n -> EmbedTexts] : n \in 0..MaxBatch}

(* embed_batch returns Err when the tokenizer or the inference fails. *)
EmbedBatchCall(ok) ==
  /\ call.op = "embed_input"
  /\ call' = [call EXCEPT !.op = "embed_batch", !.ok = ok,
                          !.vectors = IF ok THEN embed_batch(call.texts)
                                      ELSE << >>]
  /\ UNCHANGED <<db, indexVars, hostVars>>

NextEmbed == \E ok \in BOOLEAN : EmbedBatchCall(ok)

InitEmbed ==
  /\ disk = [p \in Paths |-> NoFile]
  /\ edits = 0
  /\ db = EmptyDb
  /\ pass = IdlePass
  /\ last = NoLast
  /\ call \in {[NoCall EXCEPT !.op = "embed_input", !.texts = b] :
                 b \in Batches}
  /\ HostInit

SpecEmbed == InitEmbed /\ [][NextEmbed]_vars

----------------------------------------------------------------------------
(* extractor.rs: extract_text (specification SpecExtract).  The bytes of a  *)
(* file are a sequence of runs, count times a unit; a unit is a byte or a   *)
(* byte sequence that the decoders take or refuse as a whole.               *)

(* Bound: runs in a file. *)
MaxRuns == 2

(* The first bytes the binary heuristic looks at. *)
HeuristicWindow == 8192

(* The divisor of the heuristic's threshold. *)
HeuristicDivisor == 20

(* Bytes of a unit: ASCII letter, NUL, control byte 0x01, an invalid byte, *)
(* the UTF-8 byte-order mark, a three-byte UTF-8 sequence, and double-byte  *)
(* sequences.                                                               *)
UnitBytes(unit) ==
  CASE unit \in {"a", "nul", "ctl", "bad"} -> 1
    [] unit \in {"bom", "u8"} -> 3
    [] OTHER -> 2

(* The encodings that decode the unit without error: "dbcs" is valid in    *)
(* all four double-byte encodings, "sjis" in Shift-JIS and Big5, "kr" in   *)
(* EUC-KR and Big5, "big5" in Big5 alone, "bad" in none.                   *)
Decodes(enc, unit) ==
  CASE unit \in {"a", "nul", "ctl"} -> TRUE
    [] unit \in {"bom", "u8"} -> enc = "UTF_8"
    [] unit = "dbcs" -> enc \in {"GBK", "SHIFT_JIS", "EUC_KR", "BIG5"}
    [] unit = "sjis" -> enc \in {"SHIFT_JIS", "BIG5"}
    [] unit = "kr" -> enc \in {"EUC_KR", "BIG5"}
    [] unit = "big5" -> enc = "BIG5"
    [] OTHER -> FALSE

(* The characters a unit decodes to: the same in every encoding for the    *)
(* one-byte units, the replacement character where it does not decode.     *)
DecodedChar(enc, unit) ==
  IF ~Decodes(enc, unit) THEN <<"U+FFFD", "bad">>
  ELSE IF unit \in {"a", "nul", "ctl"} THEN <<"ascii", unit>>
  ELSE <<enc, unit>>

(* String::from_utf8_lossy(&bytes): what is not UTF-8 becomes U+FFFD. *)
from_utf8_lossy(bytes) ==
  [i \in 1..Len(bytes) |->
     [char |-> DecodedChar("UTF_8", bytes[i].unit), count |-> bytes[i].count]]

(* encoding.decode(data), and str::from_utf8(data) for UTF_8 *)
Decode(enc, data) ==
  [text |-> [i \in 1..Len(data) |->
               [char |-> DecodedChar(enc, data[i].unit),
                count |-> data[i].count]],
   had_errors |-> \E i \in 1..Len(data) : ~Decodes(enc, data[i].unit)]

(* bytes.starts_with(&[0xEF, 0xBB, 0xBF]) then &bytes[3..] *)
StripBom(bytes) ==
  IF bytes # << >> /\ bytes[1].unit = "bom"
  THEN IF bytes[1].count = 1 THEN Tail(bytes)
       ELSE <<[bytes[1] EXCEPT !.count = @ - 1]>> \o Tail(bytes)
  ELSE bytes

RECURSIVE DataLen(_)
DataLen(data) ==
  IF data = << >> THEN 0
  ELSE UnitBytes(data[1].unit) * data[1].count + DataLen(Tail(data))

(* The NUL and control bytes among the first HeuristicWindow bytes, the    *)
(* run data[1] starting at byte offset.                                    *)
RECURSIVE SuspiciousFrom(_, _)
SuspiciousFrom(data, offset) ==
  IF data = << >> \/ offset >= HeuristicWindow THEN 0
  ELSE (IF data[1].unit \in {"nul", "ctl"}
        THEN Min({data[1].count, HeuristicWindow - offset}) ELSE 0)
       + SuspiciousFrom(Tail(data),
                        offset + UnitBytes(data[1].unit) * data[1].count)

(* suspicious > data.len().min(8192) / 20 *)
LooksBinary(data) ==
  SuspiciousFrom(data, 0)
    > Min({DataLen(data), HeuristicWindow}) \div HeuristicDivisor

(* The encodings tried after UTF-8, with Big5 first. *)
CjkEncodings_big5_first == <<"BIG5", "GBK", "SHIFT_JIS", "EUC_KR">>

(* The encodings tried after UTF-8, in order. *)
CjkEncodings == <<"GBK", "SHIFT_JIS", "EUC_KR", "BIG5">>

RECURSIVE TryEncodings(_, _, _)
TryEncodings(encodings, data, bytes) ==
  IF encodings = << >> THEN from_utf8_lossy(bytes)
  ELSE IF ~Decode(encodings[1], data).had_errors
    THEN Decode(encodings[1], data).text
  ELSE TryEncodings(Tail(encodings), data, bytes)

TextTypes == {"Markdown", "Code", "PlainText"}

ErrorKinds == {"Unsupported", "IoError", "BinaryDetected",
               "StructuredExtractionFailed"}

Extracted(text, file_type) ==
  [ok |-> TRUE, err |-> "none", text |-> text, file_type |-> file_type]

ExtractErr(kind, file_type) ==
  [ok |-> FALSE, err |-> kind, text |-> << >>, file_type |-> file_type]

(* extract_text of the file called name: the set of its possible results.  *)
(* file.readable says whether the file can be opened and read; the         *)
(* extractors of the document formats succeed with some text or fail.      *)
ExtractText(name, file) ==
  LET file_type == detect_file_type(name)
      data == StripBom(file.bytes)
  IN IF file_type = "Unsupported"
       THEN {ExtractErr("Unsupported", file_type)}
     ELSE IF file_type \notin TextTypes
       THEN IF file.readable
            THEN {Extracted(<<[char |-> <<"doc", "text">>, count |-> 1]>>,
                            file_type),
                  ExtractErr("StructuredExtractionFailed", file_type)}
            ELSE {ExtractErr("IoError", file_type)}
     ELSE IF ~file.readable THEN {ExtractErr("IoError", file_type)}
     ELSE IF LooksBinary(data) THEN {ExtractErr("BinaryDetected", file_type)}
     ELSE IF ~Decode("UTF_8", data).had_errors
       THEN {Extracted(Decode("UTF_8", data).text, file_type)}
     ELSE {Extracted(TryEncodings(CjkEncodings, data, file.bytes),
                     file_type)}

Run(unit, count) == [unit |-> unit, count |-> count]

RunKinds == {Run("a", 1), Run("a", HeuristicDivisor - 1),
             Run("a", HeuristicWindow), Run("nul", 1), Run("ctl", 2),
             Run("bom", 1), Run("u8", 1), Run("dbcs", 1), Run("sjis", 1),
             Run("kr", 1), Run("big5", 1), Run("bad", 1)}

FileBytes == UNION {[1..n -> RunKinds] : n \in 0..MaxRuns}

NamePdf == <<"a", ".", "p", "d", "f">>
NameRs == <<"a", ".", "r", "s">>
NameToml == <<"a", ".", "t", "o", "m", "l">>

ExtractNames == {NameMd, NameRs, NameToml, NamePdf, NameBin}

ExtractTextCall(result) ==
  /\ call.op = "extract_input"
  /\ result \in ExtractText(call.name, call.file)
  /\ call' = [call EXCEPT !.op = "extract_text", !.extracted = result]
  /\ UNCHANGED <<db, indexVars, hostVars>>

NextExtract ==
  \E result \in ExtractText(call.name, call.file) : ExtractTextCall(result)

InitExtract ==
  /\ disk = [p \in Paths |-> NoFile]
  /\ edits = 0
  /\ db = EmptyDb
  /\ pass = IdlePass
  /\ last = NoLast
  /\ call \in {[NoCall EXCEPT !.op = "extract_input", !.name = n,
                               !.file = [bytes |-> b, readable |-> r]] :
                 n \in ExtractNames, b \in FileBytes, r \in BOOLEAN}
  /\ HostInit

SpecExtract == InitExtract /\ [][NextExtract]_vars

----------------------------------------------------------------------------
(* indexer.rs: index_all on one file, with index_single_file in the steps  *)
(* at which it reads the file system, and another process that writes the  *)
(* file between them (specification SpecRace).                             *)

(* Bounds: passes of index_all, writes of the other process. *)
MaxRacePasses == 2
MaxRaceWrites == 2

RacePath == "a.md"

(* index_all up to the mtime test of the file's iteration (lines 41-53):   *)
(* a file that is not there is not enumerated.                             *)
RacePassCheck ==
  /\ call.race.at \in {"idle", "skipped", "indexed", "failed"}
  /\ call.race.passes < MaxRacePasses
  /\ call' = [call EXCEPT
       !.race.passes = @ + 1,
       !.race.at =
         IF ~disk[RacePath].exists THEN "idle"
         ELSE IF is_current(get_file_mtime(db, RacePath),
                            disk[RacePath].mtime)
           THEN "skipped"
         ELSE "checked"]
  /\ UNCHANGED <<db, indexVars, hostVars>>

(* index_single_file, line 85: extract_text reads the file. *)
RaceExtract ==
  /\ call.race.at = "checked"
  /\ call' = [call EXCEPT
       !.race.at = IF extract_text(disk[RacePath]).ok THEN "extracted"
                   ELSE "failed",
       !.race.content = extract_text(disk[RacePath]).text,
       !.race.readMtime = disk[RacePath].mtime]
  /\ UNCHANGED <<db, indexVars, hostVars>>

(* index_single_file, lines 87-126: the hash of the content read, then     *)
(* get_mtime of the file as it is now, the file record and the chunks.     *)
RaceRecord ==
  /\ call.race.at = "extracted"
  /\ IF ~disk[RacePath].exists
     THEN /\ db' = db
          /\ call' = [call EXCEPT !.race.at = "failed"]
     ELSE /\ db' = index_single_file(
                     db, [exists |-> TRUE, mtime |-> disk[RacePath].mtime,
                          content |-> call.race.content],
                     RacePath, NoFaults).db
          /\ call' = [call EXCEPT
               !.race.at = "indexed",
               !.race.stale = disk[RacePath].mtime # call.race.readMtime]
  /\ UNCHANGED <<indexVars, hostVars>>

(* Another process writes the file, at the same second or later. *)
RaceWrite(content, mtime) ==
  /\ edits < MaxRaceWrites
  /\ disk[RacePath].exists
  /\ mtime >= disk[RacePath].mtime
  /\ disk[RacePath].content # content
  /\ edits' = edits + 1
  /\ disk' = [disk EXCEPT ![RacePath] = [exists |-> TRUE, mtime |-> mtime,
                                         content |-> content]]
  /\ call' = [call EXCEPT !.race.stale = FALSE]
  /\ UNCHANGED <<db, pass, last, hostVars>>

(* Another process removes the file. *)
RaceRemove ==
  /\ edits < MaxRaceWrites
  /\ disk[RacePath].exists
  /\ edits' = edits + 1
  /\ disk' = [disk EXCEPT ![RacePath] = NoFile]
  /\ call' = [call EXCEPT !.race.stale = FALSE]
  /\ UNCHANGED <<db, pass, last, hostVars>>

NextRace ==
  \/ RacePassCheck
  \/ RaceExtract
  \/ RaceRecord
  \/ \E c \in Contents, m \in Mtimes : RaceWrite(c, m)
  \/ RaceRemove

InitRace ==
  /\ disk \in {[p \in Paths |->
                  IF p = RacePath
                  THEN [exists |-> TRUE, mtime |-> 1, content |-> c]
                  ELSE NoFile] : c \in Contents}
  /\ edits = 0
  /\ db = EmptyDb
  /\ pass = IdlePass
  /\ last = NoLast
  /\ call = NoCall
  /\ HostInit

SpecRace == InitRace /\ [][NextRace]_vars

----------------------------------------------------------------------------

(* python_setup.rs: setup_python_env behind SETUP_IN_PROGRESS               *)

MaxSetupCalls == 4

(* AtomicBool::swap(true): the old value and the stored value, in one step. *)
swap_blind(flag) == [old |-> FALSE, new |-> TRUE]

swap(flag) == [old |-> flag, new |-> TRUE]

(* Drop for SetupGuard: the value stored to the flag. *)
SetupGuard_drop == FALSE

InFlight == {t \in SetupTasks : call.setup.at[t] # "idle"}

(* setup_python_env up to the first await of do_setup: the swap, then     *)
(* either the early return or the guard and do_setup's request.           *)
SetupCall(t) ==
  /\ call.setup.at[t] = "idle"
  /\ call.setup.calls < MaxSetupCalls
  /\ LET s == swap(call.setup.flag) IN
     call' = [call EXCEPT
       !.op = "setup_python_env",
       !.setup.flag = s.new,
       !.setup.calls = @ + 1,
       !.setup.at[t] = IF s.old THEN "idle" ELSE "send",
       !.setup.ret[t] = IF s.old THEN "busy" ELSE "none",
       !.setup.downloads = IF s.old THEN @ ELSE @ + 1,
       !.setup.ev = [task |-> t, ret |-> IF s.old THEN "busy" ELSE "none",
                     downloads |-> call.setup.downloads]]
  /\ UNCHANGED <<db, indexVars, hostVars>>

(* do_setup moves on: the response arrived, the archive is on disk. *)
DoSetupStep(t) ==
  /\ call.setup.at[t] \in {"send", "stream"}
  /\ call' = [call EXCEPT
       !.op = "do_setup",
       !.setup.at[t] = IF @ = "send" THEN "stream" ELSE "extract",
       !.setup.ev = [task |-> t, ret |-> "none",
                     downloads |-> call.setup.downloads]]
  /\ UNCHANGED <<db, indexVars, hostVars>>

(* do_setup ends and _guard goes out of scope: by Ok after the extraction, *)
(* by an Err of any step, or by a panic that unwinds through the frame.    *)
DoSetupEnd(t, how) ==
  /\ call.setup.at[t] # "idle"
  /\ how = "ok" => call.setup.at[t] = "extract"
  /\ call' = [call EXCEPT
       !.op = "do_setup",
       !.setup.flag = SetupGuard_drop,
       !.setup.at[t] = "idle",
       !.setup.ret[t] = how,
       !.setup.ev = [task |-> t, ret |-> how,
                     downloads |-> call.setup.downloads]]
  /\ UNCHANGED <<db, indexVars, hostVars>>

NextSetup ==
  \/ \E t \in SetupTasks : SetupCall(t)
  \/ \E t \in SetupTasks : DoSetupStep(t)
  \/ \E t \in SetupTasks, how \in {"ok", "err", "panic"} : DoSetupEnd(t, how)

InitSetup ==
  /\ disk = [p \in Paths |-> NoFile]
  /\ edits = 0
  /\ db = EmptyDb
  /\ pass = IdlePass
  /\ last = NoLast
  /\ call = NoCall
  /\ HostInit

SpecSetup == InitSetup /\ [][NextSetup]_vars

----------------------------------------------------------------------------

(* indexer.rs: index_single_file on a file of many chunks                   *)

(* The largest file: two full batches and one chunk more. *)
MaxParagraphs == 65

SinglePath == "a.md"

Paragraph(i) == "p" \o ToString(i)

(* The file's text: n paragraphs, each different from the others. *)
ManyParagraphs(n) == [i \in 1..n |-> Paragraph(i)]

ParagraphCounts == {0, 1, batch_size - 1, batch_size, batch_size + 1,
                    MaxParagraphs}

(* embed_batch's Ok value as index_single_file receives it: one vector per *)
(* text of the batch, in order.                                            *)
EmbedAll(texts) == [i \in 1..Len(texts) |-> Embed(texts[i])]

SingleReturnErr(d) ==
  /\ db' = d
  /\ call' = [call EXCEPT !.op = "index_single_file", !.ok = FALSE,
                          !.single.at = "done", !.single.ok = FALSE]

(* Lines 85-98: extract, hash, get_mtime, upsert_file, chunk_text. *)
SingleBegin(n) ==
  /\ call.single.at = "idle"
  /\ LET ex == extract_text(disk[SinglePath])
         up == upsert_file(db, SinglePath, disk[SinglePath].mtime,
                           Hash(ex.text), n)
         chunks == chunk_text(ex.text)
     IN IF ~ex.ok THEN SingleReturnErr(db)
        ELSE IF ~up.ok THEN SingleReturnErr(up.db)
        ELSE /\ db' = up.db
             /\ call' = [call EXCEPT
                  !.op = "index_single_file",
                  !.path = SinglePath,
                  !.single.file_id = up.ret,
                  !.single.chunks = chunks,
                  !.single.at = IF chunks = << >> THEN "done" ELSE "loop"]
  /\ UNCHANGED <<indexVars, hostVars>>

(* Lines 106-110: the next batch and embed_batch on it. *)
SingleEmbed(ok) ==
  /\ call.single.at = "loop"
  /\ call.single.batch_start < Len(call.single.chunks)
  /\ LET texts == Texts(call.single.chunks)
         batch_start == call.single.batch_start
         batch_end == IF batch_start + batch_size < Len(texts)
                      THEN batch_start + batch_size ELSE Len(texts)
         batch == SubSeq(texts, batch_start + 1, batch_end)
     IN call' = [call EXCEPT
          !.single.batches = Append(@, batch),
          !.single.at = IF ok THEN "insert" ELSE "done",
          !.single.ok = ok,
          !.ok = ok,
          !.single.embeddings = IF ok THEN EmbedAll(batch) ELSE << >>,
          !.single.j = 0]
  /\ UNCHANGED <<db, indexVars, hostVars>>

(* Lines 112-123: insert_chunk for the vector at j; after the batch's last *)
(* vector the outer loop steps on by batch_size.                           *)
SingleInsert(n) ==
  /\ call.single.at = "insert"
  /\ LET x == call.single
         chunk == x.chunks[x.batch_start + x.j + 1]
         r == insert_chunk(db, x.file_id, chunk, x.embeddings[x.j + 1], n)
     IN IF ~r.ok THEN SingleReturnErr(r.db)
        ELSE /\ db' = r.db
             /\ call' = [call EXCEPT
                  !.single.chunk_idx = @ + 1,
                  !.single.j = @ + 1,
                  !.single.at = IF x.j + 1 < Len(x.embeddings)
                                THEN "insert" ELSE "loop",
                  !.single.batch_start = IF x.j + 1 < Len(x.embeddings)
                                         THEN @ ELSE @ + batch_size]
  /\ UNCHANGED <<indexVars, hostVars>>

(* Line 126: Ok(chunk_idx) once the range is used up. *)
SingleReturn ==
  /\ call.single.at = "loop"
  /\ call.single.batch_start >= Len(call.single.chunks)
  /\ call' = [call EXCEPT !.single.at = "done",
                          !.single.ret = call.single.chunk_idx,
                          !.ret = call.single.chunk_idx]
  /\ UNCHANGED <<db, indexVars, hostVars>>

NextSingle ==
  \/ \E n \in {NoFault, 0, 3} : SingleBegin(n)
  \/ \E ok \in BOOLEAN : SingleEmbed(ok)
  \/ \E n \in {NoFault, 0, 1} : SingleInsert(n)
  \/ SingleReturn

(* The file is new to the Store, or the Store holds an earlier version of  *)
(* it; the file can also be one extract_text rejects.                      *)
InitSingle ==
  /\ disk \in {[p \in Paths |->
                  IF p = SinglePath
                  THEN [exists |-> TRUE, mtime |-> 2, content |-> c]
                  ELSE NoFile] :
                 c \in {ManyParagraphs(n) : n \in ParagraphCounts}
                         \cup {BinContent}}
  /\ edits = 0
  /\ db \in {EmptyDb,
             index_single_file(EmptyDb,
                               [exists |-> TRUE, mtime |-> 1,
                                content |-> <<"y", "z">>],
                               SinglePath, NoFaults).db}
  /\ pass = IdlePass
  /\ last = NoLast
  /\ call = NoCall
  /\ HostInit

SpecSingle == InitSingle /\ [][NextSingle]_vars

----------------------------------------------------------------------------

Init ==
  /\ disk = [p \in Paths |->
               [exists |-> TRUE, mtime |-> 1,
                content |-> IF p = "a.md" THEN <<"y", "z">> ELSE <<"x">>]]
  /\ edits = 0
  /\ db = EmptyDb
  /\ pass = IdlePass
  /\ last = NoLast
  /\ call = NoCall
  /\ HostInit

Next ==
  \/ \E walk \in {"ok", "root", "sub"} : StartPass(walk)
  \/ \E fault \in Faults : IndexFile(fault)
  \/ \E n \in 0..(MaxStmts - 1) : Crash(n)
  \/ \E p \in Paths, c \in Contents, m \in Mtimes : WriteFile(p, c, m)
  \/ \E p \in Paths : RemoveFile(p)

Spec == Init /\ [][Next]_vars

----------------------------------------------------------------------------
(* Claims about index_all (specification Spec) *)

(* C1: when index_single_file fails after the file record was written, the *)
(* Store does not hold, for that path, a record with the file's current    *)
(* mtime and an incomplete chunk set (the next pass would skip it).        *)
C1_FailedFileIsRetried ==
  (last.outcome = "failed" /\ last.upserted /\ disk[last.path].exists)
    => ~(/\ is_current(get_file_mtime(db, last.path), disk[last.path].mtime)
         /\ ~Complete(db, last.path))

(* C2: a file that was indexed and whose content or mtime has changed      *)
(* since is, when nothing fails in the pass, re-indexed by it: afterwards  *)
(* its chunks are those of the current content.                            *)
C2_AnyChangeReindexes ==
  (/\ last.wasIndexed /\ last.changed /\ last.faultFree
   /\ last.outcome \in {"current", "indexed", "failed"})
    => /\ last.outcome = "indexed"
       /\ ChunkTexts(db, last.path) = Texts(chunk_text(last.content))

(* C3: the file id and the chunk ids a path had before the pass re-indexed *)
(* it (retiredF, retiredC) are in no table for the rest of the pass and    *)
(* after it, are given to no new row, and come back from no search.        *)
C3_OldIdsGone ==
  /\ \A f \in db.files : f.id \notin pass.retiredF
  /\ \A c \in db.chunks : c.id \notin pass.retiredC
                            /\ c.file_id \notin pass.retiredF
  /\ \A v \in db.vecs : v.chunk_id \notin pass.retiredC
  /\ \A r \in SearchJoin(db) : r.chunk_id \notin pass.retiredC
                                 /\ r.file_id \notin pass.retiredF

C3_Witness ==
  /\ pass.st = "ok"
  /\ last.outcome = "indexed"
  /\ last.changed
  /\ last.prevTexts # << >>
  /\ last.prevTexts # ChunkTexts(db, last.path)
  /\ pass.retiredF # {}
  /\ pass.retiredC # {}
  /\ SearchJoin(db) # {}

C5_PassAlwaysReports ==
  (pass.st \in {"ok", "err"} /\ pass.walk # "root")
    => /\ pass.st = "ok"
       /\ pass.files_indexed + pass.files_skipped = pass.total

(* C19: every step of the pass adds to chunks_created the number of chunk  *)
(* rows with a vector that the step added to the Store, so that the report *)
(* counts the rows the pass added, also for a file whose indexing failed   *)
(* after some of its chunks were written.                                  *)
C19_ChunksCreatedCountsRows ==
  [][(pass.st = "running" /\ pass'.st \in {"running", "ok", "err"})
       => pass'.chunks_created - pass.chunks_created
            = Cardinality({v \in db'.vecs : v.chunk_id > db.cseq})]_vars

(* C6: after a crash inside index_single_file the index holds, for that    *)
(* file, its previous chunk set or its new one, whole and with vectors.    *)
C6_CrashLeavesWholeChunkSet ==
  pass.st = "crashed"
    => /\ ChunkTexts(db, last.path)
            \in {last.prevTexts, Texts(chunk_text(last.content))}
       /\ VectorsMatch(db, last.path)

----------------------------------------------------------------------------
(* Claims about the Store (specification SpecStore) *)

(* C9: every chunk row has exactly one vector row under its id and a file  *)
(* row that owns it, and every vector row has its chunk row.               *)
C9_ChunkVectorPairing ==
  /\ \A c \in db.chunks :
       /\ Cardinality({v \in db.vecs : v.chunk_id = c.id}) = 1
       /\ \E f \in db.files : f.id = c.file_id
  /\ \A v \in db.vecs : \E c \in db.chunks : c.id = v.chunk_id

(* C10: at most one file row per path; a successful upsert_file on a path  *)
(* that had a row leaves one row for it, with the new mtime and hash, an   *)
(* id no row had before, and no chunk.                                     *)
C10_OneRowPerPath ==
  /\ \A p \in Paths : Cardinality(FileRows(db, p)) <= 1
  /\ (call.op = "upsert_file" /\ call.ok)
       => /\ FileRows(db, call.path)
               = {[id |-> call.ret, path |-> call.path,
                   mtime |-> call.mtime, hash |-> call.hash]}
          /\ call.ret \notin call.seenF
          /\ ChunksOf(db, call.ret) = {}

C10_Witness ==
  /\ call.op = "upsert_file"
  /\ call.ok
  /\ call.hadRow
  /\ db.chunks # {}
  /\ Cardinality(db.files) = Cardinality(Paths)

(* The rows a path owns: its file row, their chunks, their vectors. *)
VecsOfPath(d, path) == {v \in d.vecs : v.chunk_id \in ChunkIdsOfPath(d, path)}

ChunkRowsOfPath(d, path) == {c \in d.chunks : c.id \in ChunkIdsOfPath(d, path)}

C12_ReturnsChunksRemoved ==
  (call.op = "delete_file" /\ call.ok) => call.ret = call.hadChunks

(* C13: delete_file on a path without a file row returns Ok(0) and leaves  *)
(* the three tables as they were, whatever the statement budget.           *)
C13_DeleteMissingIsNoop ==
  [][(call'.op = "delete_file" /\ ~call'.hadRow)
       => /\ call'.ok
          /\ call'.ret = 0
          /\ db' = db]_vars

C13_Witness ==
  /\ call.op = "delete_file"
  /\ ~call.hadRow
  /\ call.ok
  /\ call.ret = 0
  /\ db.chunks # {}

----------------------------------------------------------------------------
(* Claims about search (specification SpecQuery) *)

(* C14: a search that returns Ok returns at most top_k results, in         *)
(* non-decreasing order of distance, each of them the content and line     *)
(* range of a chunk row in the Store and the path of the file row that     *)
(* owns it.                                                                *)
C14_SearchResults ==
  (call.op = "search" /\ call.ok)
    => /\ Len(call.results) <= call.top_k
       /\ \A i, j \in 1..Len(call.results) :
            i < j => call.results[i].distance <= call.results[j].distance
       /\ \A i \in 1..Len(call.results) :
            \E c \in db.chunks, f \in db.files :
              /\ f.id = c.file_id
              /\ f.path = call.results[i].path
              /\ c.content = call.results[i].content
              /\ c.start_line = call.results[i].start_line
              /\ c.end_line = call.results[i].end_line
              /\ \E v \in db.vecs :
                    /\ v.chunk_id = c.id
                    /\ Distance(Embed(call.path), v.embedding)
                         = call.results[i].distance

(* Two results at different distances, with more vectors stored than asked *)
(* for.                                                                    *)
C14_Witness ==
  /\ call.op = "search"
  /\ call.ok
  /\ call.top_k = 2
  /\ Len(call.results) = 2
  /\ call.results[1].distance < call.results[2].distance
  /\ Cardinality(db.vecs) > 2

----------------------------------------------------------------------------
(* Claims about auto_cleanup (specification SpecCleanup) *)

(* The file rows whose path is not on disk, and the rows they own. *)
MissingFiles(d, dsk) == {f \in d.files : ~dsk[f.path].exists}

MissingChunks(d, dsk) ==
  LET ids == {f.id : f \in MissingFiles(d, dsk)} IN
  {c \in d.chunks : c.file_id \in ids}

MissingVecs(d, dsk) ==
  LET ids == {c.id : c \in MissingChunks(d, dsk)} IN
  {v \in d.vecs : v.chunk_id \in ids}

(* A step of auto_cleanup: the call is recorded and the disk is the same. *)
CleanupStep == call'.op = "auto_cleanup" /\ disk' = disk

----------------------------------------------------------------------------
(* Claims about rag_init (specification SpecInit) *)

(* C17: a rag_init that returned Ok left its indexer in the slot after a   *)
(* completed index_all pass; one that returned an error left the slot as   *)
(* it found it and the Store without any file or chunk row it wrote.       *)
C17_InitAllOrNothing ==
  /\ (call.op = "rag_init" /\ call.outcome = "ok")
       => /\ slot = "projA"
          /\ pass.st = "ok"
          /\ pass.files_indexed + pass.files_skipped = pass.total
  /\ (call.op = "rag_init" /\ call.outcome = "err")
       => /\ slot = call.startSlot
          /\ db.files \subseteq call.startDb.files
          /\ db.chunks \subseteq call.startDb.chunks

(* C32: after a rag_init that returned Ok, every file record of the Store   *)
(* belongs to a file of the directory and carries that file's mtime (the    *)
(* directory did not change while the call ran, so the files on disk are    *)
(* the ones its walk enumerated).                                           *)
C32_RecordsMatchWalk ==
  (call.op = "rag_init" /\ call.outcome = "ok" /\ call.startEdits = edits)
    => \A f \in db.files :
         /\ disk[f.path].exists
         /\ f.mtime = disk[f.path].mtime

----------------------------------------------------------------------------
(* Claims about the chunker (specification SpecChunk) *)

(* C20: every chunk chunk_text returns has an estimated token count of at  *)
(* most 500, unless a single line alone exceeds 500 (the chunk is that     *)
(* line; a chunk that merely contains such a line is let through here      *)
(* too).                                                                   *)
C20_ChunksUnderCap ==
  call.op = "chunk_text"
    => \A i \in 1..Len(call.chunks) :
         LET content == call.chunks[i].content IN
         \/ estimate_tokens(content) <= 500
         \/ \E j \in 1..Len(content) : estimate_tokens(<<content[j]>>) > 500

(* C21: in the chunks subdivide_lines makes of one section, every chunk    *)
(* after the first starts at or before the end line of the chunk before    *)
(* it, so that the two share a line (a chunk that follows a chunk of a     *)
(* single line, which can share none without repeating it, is let          *)
(* through).                                                               *)
C21_ConsecutiveChunksOverlap ==
  call.op = "subdivide_lines"
    => \A i \in 1..(Len(call.chunks) - 1) :
         \/ call.chunks[i + 1].start_line <= call.chunks[i].end_line
         \/ call.chunks[i].start_line = call.chunks[i].end_line

(* C22: every chunk chunk_text returns has 1 <= start_line <= end_line <=  *)
(* the number of lines of the text, start_line does not decrease along the *)
(* output, and the content is the lines start_line..end_line of the text.  *)
C22_LineRanges ==
  call.op = "chunk_text"
    => /\ \A i \in 1..Len(call.chunks) :
            /\ 1 <= call.chunks[i].start_line
            /\ call.chunks[i].start_line <= call.chunks[i].end_line
            /\ call.chunks[i].end_line <= Len(call.lines)
            /\ call.chunks[i].content
                 = SubSeq(call.lines, call.chunks[i].start_line,
                          call.chunks[i].end_line)
       /\ \A i \in 1..(Len(call.chunks) - 1) :
            call.chunks[i].start_line <= call.chunks[i + 1].start_line

(* Chunks of a subdivided block with an overlap, after a first block. *)
C22_Witness ==
  /\ call.op = "chunk_text"
  /\ call.file_type = "Code"
  /\ Len(call.chunks) >= 3
  /\ call.chunks[2].start_line > call.chunks[1].end_line
  /\ call.chunks[3].start_line <= call.chunks[2].end_line
  /\ call.chunks[3].end_line = Len(call.lines)

(* C36: subdivide_lines returns on every list of lines (a list of n lines  *)
(* yields at most n chunks, none for no line) and consumes the whole       *)
(* range: the first chunk starts at the first line, the last one ends at   *)
(* the last line, every chunk after the first starts after the start of    *)
(* the chunk before it (the start index strictly increases from one        *)
(* iteration to the next) and no later than the line after its end (no     *)
(* line is stepped over).                                                  *)
C36_StartAdvancesToTheEnd ==
  call.op = "subdivide_lines"
    => LET cs == call.chunks
           n == Len(call.lines)
       IN /\ Len(cs) <= n
          /\ n > 0
               => /\ Len(cs) >= 1
                  /\ cs[1].start_line = 1
                  /\ cs[Len(cs)].end_line = n
          /\ \A i \in 1..(Len(cs) - 1) :
               /\ cs[i].start_line < cs[i + 1].start_line
               /\ cs[i + 1].start_line <= cs[i].end_line + 1

(* A chunk of one line that alone reaches the target, where the overlap    *)
(* scan comes back to the chunk's own start, is followed by a chunk that   *)
(* starts on the next line.                                                *)
C36_Witness ==
  /\ call.op = "subdivide_lines"
  /\ \E i \in 1..(Len(call.chunks) - 1) :
       /\ call.chunks[i].start_line = call.chunks[i].end_line
       /\ estimate_tokens(call.chunks[i].content) + 1 >= TARGET_TOKENS
       /\ call.chunks[i + 1].start_line = call.chunks[i].end_line + 1

(* C37: no chunk chunk_text returns has a content that is empty or only    *)
(* whitespace: every chunk holds a line that is not blank.                 *)
C37_NoBlankChunk ==
  call.op = "chunk_text"
    => \A i \in 1..Len(call.chunks) :
         \E j \in 1..Len(call.chunks[i].content) :
           ~IsBlank(call.chunks[i].content[j])

(* C38: in the output of subdivide_lines the end line strictly increases   *)
(* from each chunk to the next.                                            *)
C38_EndLineIncreases ==
  call.op = "subdivide_lines"
    => \A i \in 1..(Len(call.chunks) - 1) :
         call.chunks[i].end_line < call.chunks[i + 1].end_line

(* C39: for Markdown, Code and plain text, every line of the text that is  *)
(* not blank lies within the line range of a returned chunk.               *)
C39_NonBlankLinesCovered ==
  (call.op = "chunk_text"
     /\ call.file_type \in {"Markdown", "Code", "PlainText"})
    => \A j \in 1..Len(call.lines) :
         ~IsBlank(call.lines[j])
           => \E i \in 1..Len(call.chunks) :
                /\ call.chunks[i].start_line <= j
                /\ j <= call.chunks[i].end_line
                /\ call.chunks[i].content[j - call.chunks[i].start_line + 1]
                     = call.lines[j]

(* A plain text whose blank separator line belongs to no chunk, with its   *)
(* paragraphs on both sides in chunks.                                     *)
C39_Witness ==
  /\ call.op = "chunk_text"
  /\ call.file_type = "PlainText"
  /\ Len(call.chunks) >= 2
  /\ \E j \in 2..(Len(call.lines) - 1) :
       /\ IsBlank(call.lines[j])
       /\ \A i \in 1..Len(call.chunks) :
            j < call.chunks[i].start_line \/ j > call.chunks[i].end_line
       /\ ~IsBlank(call.lines[j - 1])
       /\ ~IsBlank(call.lines[j + 1])

(* The heading lines of a text, by line number. *)
HeadingLines(ls) == {i \in 1..Len(ls) : ls[i].hash}

(* C23: for a markdown text that starts with a heading and has every       *)
(* section within the cap, chunk_text returns one chunk per heading line,  *)
(* in order: chunk k starts at the k-th heading line, carries its title,   *)
(* and ends on the line before the next heading line (the last chunk on    *)
(* the last line).                                                         *)
C23_OneChunkPerHeading ==
  (/\ call.op = "chunk_text"
   /\ call.file_type = "Markdown"
   /\ call.lines # << >>
   /\ call.lines[1].hash
   /\ \A h \in HeadingLines(call.lines) :
        LET next == {j \in HeadingLines(call.lines) : j > h}
            stop == IF next = {} THEN Len(call.lines) ELSE Min(next) - 1
        IN estimate_tokens(SubSeq(call.lines, h, stop)) <= MAX_TOKENS)
    => LET hs == SortedSeq(HeadingLines(call.lines)) IN
       /\ Len(call.chunks) = Len(hs)
       /\ call.chunks[1].start_line = 1
       /\ \A k \in 1..Len(hs) :
            /\ call.chunks[k].start_line = hs[k]
            /\ call.chunks[k].heading = Some(call.lines[hs[k]].title)
            /\ call.chunks[k].end_line
                 = IF k < Len(hs) THEN hs[k + 1] - 1 ELSE Len(call.lines)

C23_Witness ==
  /\ call.op = "chunk_text"
  /\ call.file_type = "Markdown"
  /\ Len(call.chunks) = 2
  /\ call.chunks[1].heading = Some("T")
  /\ call.chunks[2].heading = Some("U")
  /\ call.chunks[1].start_line = 1
  /\ call.chunks[1].end_line = 2
  /\ call.chunks[2].end_line = 4

----------------------------------------------------------------------------
(* Claims about the walk (specification SpecWalk) *)

(* A name of the skip list or a name that begins with '.'. *)
SkippedName(name) == name \in SKIP_DIRS \/ starts_with_dot(name)

(* C24: no file whose root-relative path has a name of the skip list or a  *)
(* name that begins with '.', directory or file, is enumerated by the      *)
(* walk.                                                                   *)
C24_NoSkippedOrHiddenFile ==
  (call.op = "collect_files" /\ call.walk.ok)
    => \A e \in call.walk.files :
         \A i \in 1..Len(e.segs) : ~SkippedName(e.segs[i])

(* The number of directories between the root and the file. *)
LevelsBelow(segs) == Len(segs) - 1

(* A regular file of a supported type, within the size cap, with no name   *)
(* of the skip list and no hidden name on its root-relative path.          *)
Eligible(f) ==
  /\ \A i \in 1..Len(f.segs) : ~SkippedName(f.segs[i])
  /\ f.len <= MAX_INDEX_SIZE
  /\ f.kind = "file"
  /\ detect_file_type(f.segs[Len(f.segs)]) # "Unsupported"

(* C25: a walk that succeeds enumerates no file more than 8 directory      *)
(* levels below the root, and enumerates every eligible file 8 levels or   *)
(* fewer below it.                                                         *)
C25_DepthBound ==
  (call.op = "collect_files" /\ call.walk.ok)
    => /\ \A e \in call.walk.files : LevelsBelow(e.segs) <= 8
       /\ \A f \in call.tree.files :
            (Eligible(f) /\ LevelsBelow(f.segs) <= 8)
              => \E e \in call.walk.files : e.segs = f.segs

(* The root-relative paths a walk returned. *)
RelPathsOf(walk) == {e.rel : e \in walk.files}

(* C40: the set of root-relative paths the walk returns for a tree is the  *)
(* same under every root, also a root that lies under a directory whose    *)
(* name is in the skip list.                                               *)
C40_SameUnderAnyRoot ==
  (call.op = "collect_files" /\ call.walk.ok)
    => \A r \in Roots :
         RelPathsOf(WalkTree(call.tree, r)) = RelPathsOf(call.walk)

----------------------------------------------------------------------------
(* Claims about EmbeddingEngine::new (specification SpecEngine) *)

(* The sources asked for file f in the current call, in order. *)
ReqsOf(f) ==
  LET rs == SelectSeq(call.eng.reqs, LAMBDA r : r[1] = f)
  IN [i \in 1..Len(rs) |-> rs[i][2]]

FailedFrom(f, src) == \E x \in call.eng.failed : x[1] = f /\ x[2] = src

(* C26: in every call of new, a file found in the cache gets no request;   *)
(* a file not found gets the primary URL first and the mirror only after   *)
(* the primary attempt failed, each at most once; the call fails with a    *)
(* download error only when both sources of a file failed; and a call      *)
(* that follows a successful one sends no request.                         *)
C26_CacheThenPrimaryThenMirror ==
  /\ \A f \in call.eng.hit : ReqsOf(f) = << >>
  /\ \A f \in EngineFiles :
       /\ ReqsOf(f) \in {<< >>, <<"primary">>, <<"primary", "mirror">>}
       /\ ReqsOf(f) = <<"primary", "mirror">> => FailedFrom(f, "primary")
  /\ call.eng.outcome = "download_error"
       => \E f \in EngineFiles :
            FailedFrom(f, "primary") /\ FailedFrom(f, "mirror")
  /\ call.eng.prev = "ok" => call.eng.reqs = << >>

(* A call that found the tokenizer, fetched the model from the mirror      *)
(* after the primary failed, and succeeded.                                *)
C26_Witness ==
  /\ call.eng.outcome = "ok"
  /\ ReqsOf("model") = <<"primary", "mirror">>
  /\ "tokenizer" \in call.eng.hit

(* The attempt has not received the whole body. *)
BodyIncomplete ==
  \/ call.eng.at = "send"
  \/ call.eng.at = "stream" /\ call.eng.downloaded < BodyLen(call.eng.status)

C33_OnlySuccessBodiesCached ==
  \A f \in EngineFiles :
    (cache[f].exists /\ ~cache[f].torn) => cache[f].status = 200

----------------------------------------------------------------------------
(* Claims about embed_batch (specification SpecEmbed) *)

(* The vector points the same way and has the same length as the other. *)
SameVector(v, w) ==
  /\ v.num = w.num
  /\ v.s.n * w.s.d = w.s.n * v.s.d

(* The pooled vector of a text embedded alone. *)
PooledAlone(text) ==
  LET encodings == <<Encode(text)>>
      max_len == MaxLen(encodings)
  IN Pooled(FlatCells(encodings, max_len, "ids"),
            FlatCells(encodings, max_len, "mask"), max_len, 0)

(* C29: embed_batch, when it returns Ok, returns one vector per text, in   *)
(* the order of the texts (vector i is a positive multiple of the pooled   *)
(* vector of text i), each of 384 components and of Euclidean norm 1,      *)
(* except that a pooled vector of norm zero is returned as it is.          *)
C29_UnitVectors ==
  (call.op = "embed_batch" /\ call.ok)
    => /\ Len(call.vectors) = Len(call.texts)
       /\ \A i \in 1..Len(call.texts) :
            LET alone == PooledAlone(call.texts[i])
                norm2 == NormSq(call.vectors[i])
            IN /\ DOMAIN call.vectors[i].num = 0..383
               /\ call.vectors[i].num = alone.num
               /\ IF NormSq(alone).n = 0
                  THEN SameVector(call.vectors[i], alone)
                  ELSE norm2.n = norm2.d

(* A batch of texts of different lengths, one of them with a pooled        *)
(* vector of norm zero.                                                    *)
C29_Witness ==
  /\ call.op = "embed_batch"
  /\ call.ok
  /\ Len(call.vectors) = 3
  /\ call.texts[1] = <<1, 2>>
  /\ call.texts[2] = <<3>>
  /\ NormSq(call.vectors[1]).n = NormSq(call.vectors[1]).d
  /\ NormSq(call.vectors[1]).d > 1
  /\ NormSq(call.vectors[2]).n = 0
  /\ call.vectors[3] # call.vectors[1]

----------------------------------------------------------------------------
(* Claims about extract_text (specification SpecExtract) *)

(* The file is a text file of the three text types and can be read. *)
ReadableText ==
  /\ detect_file_type(call.name) \in {"Markdown", "Code", "PlainText"}
  /\ call.file.readable

(* The text the claim names for data (the file's bytes after the           *)
(* byte-order mark): UTF-8 when valid, else the first of GBK, Shift-JIS,   *)
(* EUC-KR, Big5 that decodes without errors, else lossy UTF-8 of the       *)
(* file's bytes.                                                           *)
ClaimedText(bytes, data) ==
  IF \A i \in 1..Len(data) : Decodes("UTF_8", data[i].unit)
    THEN Decode("UTF_8", data).text
  ELSE IF \A i \in 1..Len(data) : Decodes("GBK", data[i].unit)
    THEN Decode("GBK", data).text
  ELSE IF \A i \in 1..Len(data) : Decodes("SHIFT_JIS", data[i].unit)
    THEN Decode("SHIFT_JIS", data).text
  ELSE IF \A i \in 1..Len(data) : Decodes("EUC_KR", data[i].unit)
    THEN Decode("EUC_KR", data).text
  ELSE IF \A i \in 1..Len(data) : Decodes("BIG5", data[i].unit)
    THEN Decode("BIG5", data).text
  ELSE from_utf8_lossy(bytes)

(* C28: extract_text returns Ok or an error of a defined kind; for a       *)
(* readable Markdown, Code or PlainText file its only error is             *)
(* BinaryDetected, and when the binary heuristic passes it returns Ok      *)
(* with the text decoded as UTF-8 when valid, else by the first of GBK,    *)
(* Shift-JIS, EUC-KR, Big5 that decodes without errors, else by lossy      *)
(* UTF-8.                                                                  *)
C28_ExtractTextResults ==
  call.op = "extract_text"
    => /\ call.extracted.ok \/ call.extracted.err \in ErrorKinds
       /\ ReadableText
            => /\ call.extracted.ok \/ call.extracted.err = "BinaryDetected"
               /\ ~LooksBinary(StripBom(call.file.bytes))
                    => /\ call.extracted.ok
                       /\ call.extracted.text
                            = ClaimedText(call.file.bytes,
                                          StripBom(call.file.bytes))

(* A file that is not UTF-8 and not GBK, decoded as Shift-JIS. *)
C28_Witness ==
  /\ call.op = "extract_text"
  /\ ReadableText
  /\ call.extracted.ok
  /\ Len(call.extracted.text) = 2
  /\ call.extracted.text[1].char = <<"SHIFT_JIS", "dbcs">>
  /\ call.extracted.text[2].char = <<"SHIFT_JIS", "sjis">>

----------------------------------------------------------------------------
(* Claims about index_single_file and a concurrent writer (SpecRace) *)

(* C30: the mtime recorded for the file is the mtime it had when its       *)
(* content was read, and a pass that follows an indexing during which the  *)
(* file was modified (its mtime changed after extract_text read it) does   *)
(* not skip the file.                                                      *)
C30_RecordedMtimeIsReadMtime ==
  /\ call.race.at = "indexed"
       => \A f \in FileRows(db, RacePath) : f.mtime = call.race.readMtime
  /\ call.race.at = "skipped" => ~call.race.stale

----------------------------------------------------------------------------
(* Claims about the host commands (specification SpecHost) *)

Running(dir) ==
  {t \in Procs : /\ pc[t].dir = dir
                 /\ pc[t].at \in {"indexing", "rag_search",
                                   "search_knowledge"}}

(* C7: at any time at most one indexing pass or search query is running    *)
(* against a project's index.                                              *)
C7_OneOperationPerProject ==
  \A dir \in Dirs : Cardinality(Running(dir)) <= 1

Provisioning ==
  {t \in Procs : pc[t].at \in {"new", "dl_model", "chk_tok", "dl_tok", "load"}}

(* C8: at most one provisioning attempt is in flight (a second caller is   *)
(* turned away), so neither file is downloaded by two callers at once.     *)
C8_SingleFlightProvisioning ==
  /\ Cardinality(Provisioning) <= 1
  /\ Cardinality({t \in Procs : At(t, "dl_model")}) <= 1
  /\ Cardinality({t \in Procs : At(t, "dl_tok")}) <= 1

(* The tasks inside rag_rebuild: the old indexer dropped, the new one not  *)
(* yet stored.                                                             *)
Rebuilding == {t \in Procs : pc[t].cmd = "rag_rebuild" /\ pc[t].at # "idle"}

(* C18: from the moment rag_rebuild has dropped the old indexer until its  *)
(* re-initialization succeeds the slot is empty, so that rag_search and    *)
(* rag_stats answer 'RAG not initialized'.                                 *)
C18_RebuildHidesIndex ==
  Rebuilding # {} => slot = "none"

(* C31: a rag_search that returns results runs on the index of the         *)
(* directory given to the rag_init or rag_rebuild call issued last.         *)
C31_SearchOnLatestDir ==
  \A t \in Procs : At(t, "rag_search") => pc[t].dir = call.issued

----------------------------------------------------------------------------
(* Claims about setup_python_env (SpecSetup)                                *)

(* C35: setup_python_env is single-flight: at most one call is inside      *)
(* do_setup at any time; the flag is set exactly while a call is inside,   *)
(* so it is cleared when that call ends by success, error or panic and a   *)
(* later call is admitted; and a call that arrives meanwhile returns the   *)
(* "already in progress" error, starts no download and leaves the flag     *)
(* set.                                                                    *)
C35_SingleFlight ==
  /\ Cardinality(InFlight) <= 1
  /\ call.setup.flag <=> InFlight # {}
  /\ call.setup.ev.ret = "busy"
       => /\ call.setup.flag
          /\ call.setup.at[call.setup.ev.task] = "idle"
          /\ call.setup.downloads = call.setup.ev.downloads
          /\ InFlight # {}

(* A call was turned away while another one, admitted after an earlier    *)
(* call had panicked, is inside do_setup.                                  *)
C35_Witness ==
  /\ call.setup.ev.ret = "busy"
  /\ \E t \in SetupTasks : call.setup.ret[t] = "panic"
  /\ \E t \in SetupTasks : call.setup.at[t] = "stream"

----------------------------------------------------------------------------
(* Claims about index_single_file's batches (SpecSingle)                    *)

RECURSIVE Flatten(_)
Flatten(ss) == IF ss = << >> THEN << >> ELSE Head(ss) \o Flatten(Tail(ss))

(* C34: the batches index_single_file hands to embed_batch have between 1  *)
(* and 32 texts each and are, one after the other, the chunker's chunks in *)
(* order; every vector stored for a chunk of the file is the one computed  *)
(* from that chunk's content; and when the call returns Ok(n), n is the    *)
(* number of chunks the chunker produced and the number of chunk rows the  *)
(* file has, these rows are the chunks in order, each with its vector, and *)
(* every chunk went through a batch.                                       *)
C34_BatchesOfAtMost32 ==
  LET x == call.single
      texts == Texts(x.chunks)
      passed == Flatten(x.batches)
  IN /\ \A b \in 1..Len(x.batches) :
          Len(x.batches[b]) >= 1 /\ Len(x.batches[b]) <= 32
     /\ Len(passed) <= Len(texts)
     /\ passed = SubSeq(texts, 1, Len(passed))
     /\ \A c \in ChunksOf(db, x.file_id) :
          \A v \in db.vecs :
            v.chunk_id = c.id => v.embedding = Embed(c.content)
     /\ (x.at = "done" /\ x.ok)
          => /\ x.ret = Len(x.chunks)
             /\ x.ret = Cardinality(ChunksOf(db, x.file_id))
             /\ ChunkTexts(db, SinglePath) = texts
             /\ VectorsMatch(db, SinglePath)
             /\ passed = texts

(* Ok(65) for a file of 65 chunks that replaced an earlier version: two    *)
(* batches of 32 and one of a single chunk.                                *)
C34_Witness ==
  /\ call.single.at = "done"
  /\ call.single.ok
  /\ call.single.ret = MaxParagraphs
  /\ Len(call.single.batches) = 3
  /\ Len(call.single.batches[3]) = 1
  /\ call.single.file_id > 1

====
